---- MODULE Spec2Model ----
(***************************************************************************)
(* Model of the workout synchronisation engine of recess-backend           *)
(* (src/src/services/syncService.ts, class SyncService).                   *)
(*                                                                         *)
(* The database tables are sets of rows; a sync call (syncUserData) is a   *)
(* process that moves through its awaits: device upsert, 'syncing' mark,   *)
(* batched pre-fetch, one step (or two: catalog resolution, then the       *)
(* transaction) per payload workout, change feed, 'completed' mark.        *)
(* Timestamps are natural numbers; `now` is the server clock.              *)
(***************************************************************************)
EXTENDS Naturals, Sequences, FiniteSets, TLC

(***************************************************************************)
(* Bounds of the model.                                                    *)
(***************************************************************************)
\* the server clock runs over 0..MaxTime
MaxTime == 2
\* client timestamps are drawn from 1..MaxClientTime
MaxClientTime == 2
\* sync calls with a freshly chosen payload, over all devices
MaxCalls == 2
\* replays of a device's previous payload, over all devices
MaxReplays == 1
\* exercises per workout and sets per exercise in the nested payloads
MaxExercises == 2
MaxSets == 2
\* exercises plus sets of one nested payload workout
MaxNodes == 3
\* workouts per payload in the multi-device payloads
MaxWorkouts == 2
\* workouts, exercises and sets of one multi-device payload
MaxWorkoutNodes == 2
\* workouts, exercises and sets of one single-device payload of two workouts
MaxPairNodes == 3

\* MAX_RETRIES of createWorkoutFromSync
MaxFaults == 1
MaxDeletes == 3
MaxPulls == 2
MaxFaultNodes == 3
MaxCatalogCalls == 3
\* the sync calls of the two users of the specification of two accounts
MaxTenantCalls == 3
\* the sync calls of the specification of overlapping merges
MaxMergeCalls == 3
MaxEditTime == 3
MaxEditCalls == 3
MaxSessionCalls == 3
MaxStringLen == 2
MaxNumber == 12
MaxCycles == 2
MaxHeaderLen == 3

\* the rows of the tables a change feed's query joins
MaxFeedWorkouts == 2
MaxFeedExercises == 2
MaxFeedSets == 2
MaxFeedDate == 2

\* the sets and exercises of a workout and the workouts of a payload handed
\* to validateSyncPayload
MaxValidatedSets == 8
MaxValidatedExercises == 2
MaxValidatedWorkouts == 2

\* the days per week of a program that are tried, and the program calls
MaxDaysPerWeek == 3
MaxProgramCalls == 4
MAX_RETRIES == 2
MAX_WORKOUTS_PER_SYNC == 100
MAX_EXERCISES_PER_WORKOUT == 50
MAX_SETS_PER_EXERCISE == 20
MAX_WEIGHT_LBS == 10000
MAX_REPS == 10000
MAX_CURSOR_LENGTH == 500
MAX_NAME_LENGTH == 200
MAX_EXERCISE_NAME_LENGTH == 100
MAX_WORKOUT_NAME_LENGTH == 100
MAX_DEVICE_ID_LENGTH == 100
\* validateSyncPayload stops after a workout once it holds more errors
TOO_MANY_ERRORS == 20
\* a program's daysPerWeek lies in 1..7
MIN_DAYS_PER_WEEK == 1
MAX_DAYS_PER_WEEK == 7

ClientTimes == 1..MaxClientTime
WorkoutClientIds == {"w1"}
ExerciseClientIds == {"e1", "e2"}
SetClientIds == {"s1", "s2"}
Devices == {"d1", "d2", "d3"}
\* crypto.randomUUID() and the tables' defaultRandom(): the k-th id that a
\* call of device d draws is IdStride * k + IdBase(d), so that ids are fresh
\* and do not depend on how the calls of two devices interleave
IdStride == Cardinality(Devices)
IdBase(d) == IF d = "d1" THEN 1 ELSE IF d = "d2" THEN 2 ELSE 3
\* the user that a device's token authenticates: d1 and d2 are devices of one
\* user, d3 is a device of another
UserOf(d) == IF d = "d3" THEN "u2" ELSE "u1"
DevicesOf(userId) == {d \in Devices : UserOf(d) = userId}

\* new Date(undefined), the timestamp of a workout sent without updatedAt:
\* an Invalid Date, which no comparison finds greater than a date
InvalidDate == MaxClientTime + MaxEditTime + 1

SeqsUpTo(S, n) == UNION {[1..k -> S] : k \in 0..n}

(***************************************************************************)
(* Payload shapes: SetSyncData, ExerciseSyncData, WorkoutSyncData.  A      *)
(* client edit stamps the entity and changes its content, so a set's reps  *)
(* and an exercise's name follow from its client id and timestamp; the     *)
(* workout-level fields (date, name, durationSeconds, isCompleted,         *)
(* startTime, endTime) are one value, val.                                 *)
(***************************************************************************)
RepsOf(clientId, updatedAt) == IF clientId = "s1" THEN 5 + updatedAt ELSE 8

ExerciseNameOf(clientId, updatedAt) ==
    IF clientId = "e1" /\ updatedAt = 1 THEN "bench" ELSE "squat"

SetSyncData ==
    {[clientId |-> c, reps |-> RepsOf(c, t), updatedAt |-> t] :
        c \in SetClientIds, t \in ClientTimes}

ExerciseSyncData(clientIds, setLists) ==
    {[clientId |-> c, exerciseName |-> ExerciseNameOf(c, t), updatedAt |-> t,
      sets |-> ss] : c \in clientIds, t \in ClientTimes, ss \in setLists}

WorkoutSyncData(vals, exLists) ==
    [clientId : WorkoutClientIds, val : vals,
     updatedAt : ClientTimes, exercises : exLists]

RECURSIVE NodesOf(_, _)
NodesOf(exs, i) ==
    IF i > Len(exs) THEN 0 ELSE 1 + Len(exs[i].sets) + NodesOf(exs, i + 1)

\* the nested exercise lists: at most MaxExercises exercises of at most
\* MaxSets sets, MaxNodes exercises and sets in all
TreeExerciseLists ==
    {exs \in SeqsUpTo(ExerciseSyncData(ExerciseClientIds,
                                       SeqsUpTo(SetSyncData, MaxSets)),
                      MaxExercises) : NodesOf(exs, 1) <= MaxNodes}

\* the payloads of the single-device specification: one nested workout
TreePayloads == {<<w>> : w \in WorkoutSyncData({"a"}, TreeExerciseLists)}

\* all timestamps of a workout tree are ts
RECURSIVE UniformTimes(_, _, _)
UniformTimes(exs, i, ts) ==
    \/ i > Len(exs)
    \/ /\ exs[i].updatedAt = ts
       /\ \A k \in 1..Len(exs[i].sets) : exs[i].sets[k].updatedAt = ts
       /\ UniformTimes(exs, i + 1, ts)

\* client ids in order of first use: e1 before e2, s1 before s2
FirstUse(exs) ==
    /\ Len(exs) > 0 => exs[1].clientId = "e1"
    /\ \A i \in 1..Len(exs) :
         Len(exs[i].sets) > 0 => exs[i].sets[1].clientId = "s1"

\* the payloads synced against an empty account in the single-device
\* specification: the whole tree carries one client timestamp (what later
\* merges compare with are the server timestamps of the rows) and names its
\* entities in order of first use
SeedPayloads ==
    {p \in TreePayloads : /\ UniformTimes(p[1].exercises, 1, p[1].updatedAt)
                          /\ FirstUse(p[1].exercises)}

\* the payloads of the multi-device specification: up to MaxWorkouts
\* workouts with MaxWorkoutNodes workouts, exercises and sets in all; the
\* workout-level value names the sending device
FlatExerciseLists ==
    SeqsUpTo(ExerciseSyncData({"e1"},
                 SeqsUpTo({x \in SetSyncData : x.clientId = "s1"}, 1)), 1)

ValOf(d) == IF d = "d1" THEN "a" ELSE "b"

RECURSIVE PayloadNodes(_, _)
PayloadNodes(ws, i) ==
    IF i > Len(ws) THEN 0
    ELSE 1 + NodesOf(ws[i].exercises, 1) + PayloadNodes(ws, i + 1)

FlatPayloads ==
    [d \in Devices |->
       {p \in SeqsUpTo(WorkoutSyncData({ValOf(d)}, FlatExerciseLists), MaxWorkouts) :
           Len(p) > 0 /\ PayloadNodes(p, 1) <= MaxWorkoutNodes}]

\* the two-workout payloads of the single-device specification: the same
\* workout twice in one payload
PairPayloads ==
    {p \in [1..2 -> WorkoutSyncData({"a"}, FlatExerciseLists)] :
        PayloadNodes(p, 1) <= MaxPairNodes}

\* the payloads of the specification with failures: one workout w1, or w1
\* and then w2, with MaxFaultNodes workouts, exercises and sets in all
FaultExerciseLists ==
    {exs \in SeqsUpTo({x \in ExerciseSyncData(ExerciseClientIds,
                                              SeqsUpTo(SetSyncData, 1)) :
                          /\ x.updatedAt = 1
                          /\ \A j \in 1..Len(x.sets) :
                               x.sets[j] = [clientId |-> "s1", reps |-> RepsOf("s1", 1),
                                            updatedAt |-> 1]},
                      MaxExercises) : FirstUse(exs)}

FaultPayloads ==
    {p \in SeqsUpTo([clientId : {"w1", "w2"}, val : {"a"},
                     updatedAt : ClientTimes, exercises : FaultExerciseLists], 2) :
        /\ Len(p) > 0
        /\ PayloadNodes(p, 1) <= MaxFaultNodes
        /\ \A i \in 1..Len(p) :
             /\ p[i].clientId = (IF i = 1 THEN "w1" ELSE "w2")
             /\ p[i].updatedAt = p[1].updatedAt}

\* the payloads of the two-user catalog specification: one workout whose
\* exercises carry no sets; the exercise e1 is named bench at client time 1
\* and squat at client time 2
CatalogPayloads ==
    [1..1 -> WorkoutSyncData({"a"}, SeqsUpTo(ExerciseSyncData({"e1"}, {<<>>}),
                                             MaxExercises))]

\* the payloads of the two-editor specification: device d sends the workout
\* w1 with its own workout-level value, stamped at one of the client times
EditPayloads(d, times) ==
    {<<[clientId |-> "w1", val |-> ValOf(d), updatedAt |-> t, exercises |-> exs]>> :
        t \in times,
        exs \in SeqsUpTo({x \in ExerciseSyncData({"e1"}, {<<>>}) : x.updatedAt = 1}, 1)}

\* the payloads of the route specification: one workout w1, or w1 and then
\* w2, each with at most one exercise of at most one set; a workout may lack
\* its updatedAt
RoutePayloads ==
    {p \in SeqsUpTo([clientId : {"w1", "w2"}, val : {"a"},
                     updatedAt : ClientTimes \cup {InvalidDate},
                     exercises : {exs \in FaultExerciseLists : Len(exs) <= 1}], 2) :
        /\ Len(p) > 0
        /\ \A i \in 1..Len(p) : p[i].clientId = (IF i = 1 THEN "w1" ELSE "w2")}

(***************************************************************************)
(* validateSyncPayload.  A request body is described by what the validator *)
(* inspects: the number of workouts, the largest number of exercises in a  *)
(* workout and of sets in an exercise, whether every entity carries its    *)
(* client id, the largest weight and reps; and by whether every workout    *)
(* carries its updatedAt, which the validator does not inspect.            *)
(***************************************************************************)
MaxLenOf(S) == IF S = {} THEN 0 ELSE CHOOSE n \in S : \A m \in S : m <= n

MissingTimestamp(pl) == \E i \in 1..Len(pl) : pl[i].updatedAt = InvalidDate

\* the body that carries the workouts pl
BodyOf(pl) ==
    [workoutCount |-> Len(pl),
     exerciseCount |-> MaxLenOf({Len(pl[i].exercises) : i \in 1..Len(pl)}),
     setCount |-> MaxLenOf(UNION {{Len(pl[i].exercises[j].sets) :
                                     j \in 1..Len(pl[i].exercises)} :
                                  i \in 1..Len(pl)}),
     clientIds |-> TRUE,
     timestamps |-> ~MissingTimestamp(pl),
     weight |-> 100,
     reps |-> 10]

NoBody == BodyOf(<<>>)

\* the bodies a client sends with the workouts pl: the well-formed one, and
\* the ones that are past one limit or lack a client id
BodiesOf(pl) ==
    {BodyOf(pl),
     [BodyOf(pl) EXCEPT !.workoutCount = MAX_WORKOUTS_PER_SYNC + 1],
     [BodyOf(pl) EXCEPT !.exerciseCount = MAX_EXERCISES_PER_WORKOUT + 1],
     [BodyOf(pl) EXCEPT !.setCount = MAX_SETS_PER_EXERCISE + 1],
     [BodyOf(pl) EXCEPT !.clientIds = FALSE],
     [BodyOf(pl) EXCEPT !.weight = MAX_WEIGHT_LBS + 1],
     [BodyOf(pl) EXCEPT !.reps = MAX_REPS + 1]}

\* the errors validateSyncPayload collects; the payload is valid when there
\* are none
ValidateSyncPayload(body) ==
    IF body.workoutCount > MAX_WORKOUTS_PER_SYNC
    THEN {"Too many workouts"}
    ELSE (IF ~body.clientIds THEN {"clientId is required"} ELSE {})
         \cup (IF body.exerciseCount > MAX_EXERCISES_PER_WORKOUT
               THEN {"too many exercises"} ELSE {})
         \cup (IF body.exerciseCount <= MAX_EXERCISES_PER_WORKOUT
                  /\ body.setCount > MAX_SETS_PER_EXERCISE
               THEN {"too many sets"} ELSE {})
         \cup (IF body.exerciseCount <= MAX_EXERCISES_PER_WORKOUT
                  /\ body.setCount <= MAX_SETS_PER_EXERCISE
                  /\ body.weight > MAX_WEIGHT_LBS
               THEN {"weight must be between 0 and MAX_WEIGHT_LBS"} ELSE {})
         \cup (IF body.exerciseCount <= MAX_EXERCISES_PER_WORKOUT
                  /\ body.setCount <= MAX_SETS_PER_EXERCISE
                  /\ body.reps > MAX_REPS
               THEN {"reps must be between 0 and MAX_REPS"} ELSE {})

\* an entity edited before the device synced for the first time carries a
\* client timestamp older than every server timestamp: time 0
EarlyClientTimes == 0..MaxClientTime

EarlySetSyncData ==
    {[clientId |-> "s1", reps |-> RepsOf("s1", t), updatedAt |-> t] :
        t \in EarlyClientTimes}

EarlyExerciseSyncData(c) ==
    {[clientId |-> c, exerciseName |-> ExerciseNameOf(c, t), updatedAt |-> t,
      sets |-> ss] : t \in EarlyClientTimes, ss \in SeqsUpTo(EarlySetSyncData, 1)}

\* the sibling payloads of the single-device specification: one workout
\* with the exercises e1 and e2, whose timestamps start at time 0
SiblingExerciseLists ==
    {exs \in {<<x, y>> : x \in EarlyExerciseSyncData("e1"),
                         y \in EarlyExerciseSyncData("e2")} :
        NodesOf(exs, 1) <= MaxNodes}

SiblingPayloads == {<<w>> : w \in WorkoutSyncData({"a"}, SiblingExerciseLists)}

\* what the single device sends once the account holds a workout
LaterPayloads == TreePayloads \cup PairPayloads \cup SiblingPayloads

(***************************************************************************)
(* Rows of the tables workouts, workout_exercises, sets and exercises.     *)
(* updatedAt is the server-side last-modified timestamp, clientUpdatedAt   *)
(* the client's.                                                           *)
(***************************************************************************)
NewWorkoutRow(id, userId, wd, clientTimestamp, t) ==
    [id |-> id, userId |-> userId, clientId |-> wd.clientId, val |-> wd.val,
     clientUpdatedAt |-> clientTimestamp, updatedAt |-> t]

NewExerciseRow(id, workoutId, ed, libraryExerciseId, orderIndex, t) ==
    [id |-> id, workoutId |-> workoutId, clientId |-> ed.clientId,
     exerciseId |-> libraryExerciseId, orderIndex |-> orderIndex,
     exerciseName |-> ed.exerciseName,
     clientUpdatedAt |-> ed.updatedAt, updatedAt |-> t]

\* a set row numbered from zero
NewSetRowZeroBased(id, workoutExerciseId, sd, setNumber, t) ==
    [id |-> id, workoutExerciseId |-> workoutExerciseId, clientId |-> sd.clientId,
     setNumber |-> setNumber - 1, reps |-> sd.reps,
     clientUpdatedAt |-> sd.updatedAt, updatedAt |-> t]

NewSetRow(id, workoutExerciseId, sd, setNumber, t) ==
    [id |-> id, workoutExerciseId |-> workoutExerciseId, clientId |-> sd.clientId,
     setNumber |-> setNumber, reps |-> sd.reps,
     clientUpdatedAt |-> sd.updatedAt, updatedAt |-> t]

(***************************************************************************)
(* The timestamp comparisons of the merge, one per place in the code.      *)
(***************************************************************************)
\* handleWorkoutUpdate: clientTimestamp > serverTimestamp
WorkoutClientWins(clientTimestamp, serverTimestamp) ==
    clientTimestamp # InvalidDate /\ clientTimestamp > serverTimestamp

\* updateWorkoutFromSync: clientExerciseTimestamp > serverExerciseTimestamp
ExerciseClientWins(clientExerciseTimestamp, serverExerciseTimestamp) ==
    clientExerciseTimestamp > serverExerciseTimestamp

\* syncExerciseSets: clientSetTimestamp > serverSetTimestamp
SetClientWins(clientSetTimestamp, serverSetTimestamp) ==
    clientSetTimestamp > serverSetTimestamp

\* a deletion test that also deletes on equal timestamps
ExerciseDeletionWinsOnTie(clientTimestamp, existingUpdatedAt) ==
    clientTimestamp >= existingUpdatedAt

\* updateWorkoutFromSync step 5: clientTimestamp > existingExercise.updatedAt
ExerciseDeletionWins(clientTimestamp, existingUpdatedAt) ==
    clientTimestamp > existingUpdatedAt

\* syncExerciseSets: newestClientSetTime > existingSet.updatedAt
SetDeletionWins(newestClientSetTime, existingUpdatedAt) ==
    newestClientSetTime > existingUpdatedAt

MaxOf(S) == CHOOSE x \in S : \A y \in S : y <= x

\* syncExerciseSets: the deletion reference of an exercise's sets
NewestClientSetTime(clientSets, exerciseClientTimestamp) ==
    IF Len(clientSets) > 0
    THEN MaxOf({clientSets[i].updatedAt : i \in 1..Len(clientSets)})
    ELSE exerciseClientTimestamp

(***************************************************************************)
(* new Map() filled by a loop of map.set(row.clientId, row) over the rows  *)
(* of a select: one row per client id, the last one of the result.  The    *)
(* select states no order, so among rows that share a client id either the *)
(* one with the lowest or the one with the highest id is kept (hi).        *)
(***************************************************************************)
IndexByClientId(rows, hi) ==
    [c \in {r.clientId : r \in rows} |->
        LET cand == {r \in rows : r.clientId = c}
        IN  CHOOSE r \in cand :
              \A q \in cand : IF hi THEN q.id <= r.id ELSE q.id >= r.id]

ClientIdsOf(list) == {list[i].clientId : i \in 1..Len(list)}

(***************************************************************************)
(* A transaction works on db = [wex, sets, nid]: the workout_exercises and *)
(* sets tables and the next fresh row id of the call.                      *)
(***************************************************************************)
\* the loop `for (const [setIndex, setData] of exerciseData.sets.entries())`
\* of the create path and of a new exercise of the merge path
RECURSIVE InsertSets(_, _, _, _, _)
InsertSets(db, workoutExerciseId, clientSets, i, t) ==
    IF i > Len(clientSets) THEN db
    ELSE InsertSets(
           [db EXCEPT !.sets = @ \cup
                         {NewSetRow(db.nid, workoutExerciseId, clientSets[i], i, t)},
                      !.nid = @ + IdStride],
           workoutExerciseId, clientSets, i + 1, t)

\* syncExerciseSets: the loop over the client's sets
RECURSIVE SyncSetLoop(_, _, _, _, _, _)
SyncSetLoop(db, workoutExerciseId, clientSets, existingSetMap, i, t) ==
    IF i > Len(clientSets) THEN db
    ELSE
      LET sd == clientSets[i]
          db2 ==
            IF sd.clientId \in DOMAIN existingSetMap
            THEN LET existingSet == existingSetMap[sd.clientId]
                 IN  IF SetClientWins(sd.updatedAt, existingSet.updatedAt)
                     THEN [db EXCEPT !.sets =
                             {IF s.id = existingSet.id
                              THEN [s EXCEPT !.setNumber = i, !.reps = sd.reps,
                                             !.clientUpdatedAt = sd.updatedAt,
                                             !.updatedAt = t]
                              ELSE s : s \in db.sets}]
                     ELSE db
            ELSE [db EXCEPT !.sets = @ \cup
                              {NewSetRow(db.nid, workoutExerciseId, sd, i, t)},
                            !.nid = @ + IdStride]
      IN  SyncSetLoop(db2, workoutExerciseId, clientSets, existingSetMap, i + 1, t)

\* syncExerciseSets: the sets of the index that the client did not send
DeleteMissingSets(db, clientSets, existingSetMap, exerciseClientTimestamp) ==
    LET newestClientSetTime == NewestClientSetTime(clientSets, exerciseClientTimestamp)
        gone == {existingSetMap[c].id : c \in
                   {c \in DOMAIN existingSetMap :
                      /\ c \notin ClientIdsOf(clientSets)
                      /\ SetDeletionWins(newestClientSetTime,
                                         existingSetMap[c].updatedAt)}}
    IN  [db EXCEPT !.sets = {s \in db.sets : s.id \notin gone}]

SyncExerciseSets(db, workoutExerciseId, clientSets, exerciseClientTimestamp, t, hi) ==
    LET existingSets == {s \in db.sets : s.workoutExerciseId = workoutExerciseId}
        existingSetMap == IndexByClientId(existingSets, hi)
        db2 == SyncSetLoop(db, workoutExerciseId, clientSets, existingSetMap, 1, t)
    IN  DeleteMissingSets(db2, clientSets, existingSetMap, exerciseClientTimestamp)

\* updateWorkoutFromSync step 3: the loop over the client's exercises;
\* exMap is existingExerciseMap, fetched at the start of the transaction,
\* libraryIds[i] the catalog id resolved for the i-th exercise's client id
RECURSIVE SyncExerciseLoop(_, _, _, _, _, _, _, _)
SyncExerciseLoop(db, workoutId, clientExercises, exMap, libraryIds, i, t, hi) ==
    IF i > Len(clientExercises) THEN db
    ELSE
      LET ed == clientExercises[i]
          db2 ==
            IF ed.clientId \in DOMAIN exMap
            THEN LET existingExercise == exMap[ed.clientId]
                     dbu ==
                       IF ExerciseClientWins(ed.updatedAt, existingExercise.updatedAt)
                       THEN [db EXCEPT !.wex =
                               {IF x.id = existingExercise.id
                                THEN [x EXCEPT !.exerciseId = libraryIds[i],
                                               !.orderIndex = i - 1,
                                               !.exerciseName = ed.exerciseName,
                                               !.clientUpdatedAt = ed.updatedAt,
                                               !.updatedAt = t]
                                ELSE x : x \in db.wex}]
                       ELSE db
                 IN  SyncExerciseSets(dbu, existingExercise.id, ed.sets,
                                      ed.updatedAt, t, hi)
            ELSE InsertSets(
                   [db EXCEPT !.wex = @ \cup
                                {NewExerciseRow(db.nid, workoutId, ed,
                                                libraryIds[i], i - 1, t)},
                              !.nid = @ + IdStride],
                   db.nid, ed.sets, 1, t)
      IN  SyncExerciseLoop(db2, workoutId, clientExercises, exMap,
                           libraryIds, i + 1, t, hi)

\* a deletion of the missing exercises that leaves their sets
DeleteMissingExercisesOnly(db, clientExercises, existingExerciseMap, clientTimestamp) ==
    LET gone == {existingExerciseMap[c].id : c \in
                   {c \in DOMAIN existingExerciseMap :
                      /\ c \notin ClientIdsOf(clientExercises)
                      /\ ExerciseDeletionWins(clientTimestamp,
                                              existingExerciseMap[c].updatedAt)}}
    IN  [db EXCEPT !.wex = {x \in db.wex : x.id \notin gone}]

\* updateWorkoutFromSync step 5: the exercises of the index that the client
\* did not send are deleted, sets first, when the workout's client timestamp
\* is newer than the exercise's updatedAt
DeleteMissingExercises(db, clientExercises, existingExerciseMap, clientTimestamp) ==
    LET gone == {existingExerciseMap[c].id : c \in
                   {c \in DOMAIN existingExerciseMap :
                      /\ c \notin ClientIdsOf(clientExercises)
                      /\ ExerciseDeletionWins(clientTimestamp,
                                              existingExerciseMap[c].updatedAt)}}
    IN  [db EXCEPT !.sets = {s \in db.sets : s.workoutExerciseId \notin gone},
                   !.wex = {x \in db.wex : x.id \notin gone}]

\* updateWorkoutFromSync step 1: the update of the workout-level fields
UpdateWorkoutFields(rows, workoutId, wd, clientTimestamp, t) ==
    {IF w.id = workoutId
     THEN [w EXCEPT !.val = wd.val, !.clientUpdatedAt = clientTimestamp,
                    !.updatedAt = t]
     ELSE w : w \in rows}

\* the transaction of updateWorkoutFromSync on the tables
\* tb = [workouts, wex, sets, nid]
UpdateWorkoutTx(tb, workoutId, wd, clientTimestamp, libraryIds, t, hi) ==
    LET existingExercises == {x \in tb.wex : x.workoutId = workoutId}
        existingExerciseMap == IndexByClientId(existingExercises, hi)
        db0 == [wex |-> tb.wex, sets |-> tb.sets, nid |-> tb.nid]
        db1 == SyncExerciseLoop(db0, workoutId, wd.exercises, existingExerciseMap,
                                libraryIds, 1, t, hi)
        db2 == DeleteMissingExercises(db1, wd.exercises, existingExerciseMap,
                                      clientTimestamp)
    IN  [workouts |-> UpdateWorkoutFields(tb.workouts, workoutId, wd,
                                          clientTimestamp, t),
         wex |-> db2.wex, sets |-> db2.sets, nid |-> db2.nid]

\* createWorkoutFromSync: the loop that inserts the exercises and their sets
RECURSIVE InsertExercises(_, _, _, _, _, _)
InsertExercises(db, workoutId, clientExercises, libraryIds, i, t) ==
    IF i > Len(clientExercises) THEN db
    ELSE InsertExercises(
           InsertSets(
             [db EXCEPT !.wex = @ \cup
                          {NewExerciseRow(db.nid, workoutId, clientExercises[i],
                                          libraryIds[i], i - 1, t)},
                        !.nid = @ + IdStride],
             db.nid, clientExercises[i].sets, 1, t),
           workoutId, clientExercises, libraryIds, i + 1, t)

\* a createWorkoutFromSync whose set inserts are not part of what commits
CreateWorkoutTxWithoutSets(tb, workoutId, userId, wd, clientTimestamp, libraryIds, t) ==
    LET db0 == [wex |-> tb.wex, sets |-> tb.sets, nid |-> tb.nid]
        db1 == InsertExercises(db0, workoutId, wd.exercises, libraryIds, 1, t)
    IN  [workouts |-> tb.workouts \cup
                        {NewWorkoutRow(workoutId, userId, wd, clientTimestamp, t)},
         wex |-> db1.wex, sets |-> tb.sets, nid |-> db1.nid]

\* the transaction of createWorkoutFromSync; workoutId is the id drawn
\* before the catalog lookups
CreateWorkoutTx(tb, workoutId, userId, wd, clientTimestamp, libraryIds, t) ==
    LET db0 == [wex |-> tb.wex, sets |-> tb.sets, nid |-> tb.nid]
        db1 == InsertExercises(db0, workoutId, wd.exercises, libraryIds, 1, t)
    IN  [workouts |-> tb.workouts \cup
                        {NewWorkoutRow(workoutId, userId, wd, clientTimestamp, t)},
         wex |-> db1.wex, sets |-> db1.sets, nid |-> db1.nid]

(***************************************************************************)
(* getOrCreateExerciseId: a select by name, then, when no row is found, an *)
(* insert; exercises.name is unique, so an insert of a name that a row     *)
(* holds by then throws.                                                   *)
(***************************************************************************)
\* the rows the select by name returns
ExistingExercise(rows, name) == {e \in rows : e.name = name}

\* the unique constraint on exercises.name rejects the insert
NameTaken(rows, name) == \E e \in rows : e.name = name

\* the foreign key workout_exercises.exercise_id -> exercises.id rejects a
\* transaction that wrote an exercise instance whose catalog row is gone
ForeignKeyViolated(before, after, catalog) ==
    \E x \in after \ before : \A e \in catalog : e.id # x.exerciseId

\* updateWorkoutFromSync keeps the resolved ids in a Map keyed by the
\* exercise's client id: an exercise reads the id of the last exercise of
\* the payload that carries its client id
LibraryIdsByClientId(clientExercises, ids) ==
    [i \in 1..Len(clientExercises) |->
        ids[MaxOf({j \in 1..Len(clientExercises) :
                     clientExercises[j].clientId = clientExercises[i].clientId})]]

(***************************************************************************)
(* updateDeviceInfo, updateSyncMetadata, logSyncConflict,                  *)
(* recordExerciseUsage, getExistingWorkoutsMap, getServerWorkoutsSince.    *)
(***************************************************************************)
\* the row a `select ... limit 1` returns
FirstRow(rows) == CHOOSE r \in rows : \A q \in rows : r.id <= q.id

\* updateDeviceInfo: the rows its select matches, and its update or insert
\* for the row that the select returned (existingDevice has length 0 or 1)
MatchingDevices(rows, userId, deviceId) ==
    {r \in rows : r.userId = userId /\ r.deviceId = deviceId}

WriteDeviceInfo(rows, existingDevice, id, userId, deviceId, t) ==
    IF Len(existingDevice) > 0
    THEN {IF r.id = existingDevice[1].id
          THEN [r EXCEPT !.lastActiveAt = t, !.lastSyncAt = t]
          ELSE r : r \in rows}
    ELSE rows \cup {[id |-> id, userId |-> userId, deviceId |-> deviceId,
                     lastActiveAt |-> t, lastSyncAt |-> t]}

\* updateDeviceInfo when no other call of the user runs between its select
\* and its write
UpdateDeviceInfo(rows, id, userId, deviceId, t) ==
    LET existingDevice == MatchingDevices(rows, userId, deviceId)
    IN  WriteDeviceInfo(rows,
                        IF existingDevice # {}
                        THEN <<FirstRow(existingDevice)>> ELSE <<>>,
                        id, userId, deviceId, t)

NoSyncError == [code |-> "", message |-> ""]

\* updateSyncMetadata: the rows its select matches, and its update or insert
\* for the row that the select returned (existingMetadata has length 0 or
\* 1).  The counters written are computed from the row that was read.
MatchingMetadata(rows, userId) == {r \in rows : r.userId = userId}

WriteSyncMetadata(rows, existingMetadata, id, userId, status, deviceId, error) ==
    LET existing == IF Len(existingMetadata) > 0 THEN existingMetadata[1]
                    ELSE [totalSyncs |-> 0, successfulSyncs |-> 0,
                          failedSyncs |-> 0]
        Set(r) == [r EXCEPT
                     !.currentSyncStatus = status,
                     !.lastSyncDeviceId = deviceId,
                     !.lastSyncError = IF status = "failed"
                                       THEN [code |-> "SYNC_ERROR", message |-> error]
                                       ELSE @,
                     !.totalSyncs = IF status = "syncing" THEN @
                                    ELSE existing.totalSyncs + 1,
                     !.successfulSyncs = IF status = "completed"
                                         THEN existing.successfulSyncs + 1 ELSE @,
                     !.failedSyncs = IF status = "failed"
                                     THEN existing.failedSyncs + 1 ELSE @]
    IN  IF Len(existingMetadata) > 0
        THEN {IF r.id = existingMetadata[1].id THEN Set(r) ELSE r : r \in rows}
        ELSE rows \cup
               {Set([id |-> id, userId |-> userId, currentSyncStatus |-> status,
                     lastSyncDeviceId |-> deviceId, lastSyncError |-> NoSyncError,
                     totalSyncs |-> 0, successfulSyncs |-> 0, failedSyncs |-> 0])}

\* updateSyncMetadata when no other call of the user runs between its select
\* and its write
UpdateSyncMetadata(rows, id, userId, status, deviceId, error) ==
    LET existingMetadata == MatchingMetadata(rows, userId)
    IN  WriteSyncMetadata(rows,
                          IF existingMetadata # {}
                          THEN <<FirstRow(existingMetadata)>> ELSE <<>>,
                          id, userId, status, deviceId, error)

LogSyncConflictOverwriting(log, userId, entityType, entityId, clientData, serverData) ==
    <<[userId |-> userId, entityType |-> entityType,
       entityId |-> entityId, clientData |-> clientData,
       serverData |-> serverData,
       clientTimestamp |-> clientData.updatedAt,
       serverTimestamp |-> serverData.updatedAt,
       resolution |-> "server_wins"]>>

LogSyncConflict(log, userId, entityType, entityId, clientData, serverData) ==
    Append(log, [userId |-> userId, entityType |-> entityType,
                 entityId |-> entityId, clientData |-> clientData,
                 serverData |-> serverData,
                 clientTimestamp |-> clientData.updatedAt,
                 serverTimestamp |-> serverData.updatedAt,
                 resolution |-> "server_wins"])

\* recordExerciseUsage for each resolved catalog id: an upsert that counts
RECURSIVE RecordExerciseUsage(_, _, _, _)
RecordExerciseUsage(hist, userId, libraryIds, i) ==
    IF i > Len(libraryIds) THEN hist
    ELSE LET key == <<userId, libraryIds[i]>>
             h2 == IF key \in DOMAIN hist
                   THEN [hist EXCEPT ![key] = @ + 1]
                   ELSE [k \in DOMAIN hist \cup {key} |->
                           IF k = key THEN 1 ELSE hist[k]]
         IN  RecordExerciseUsage(h2, userId, libraryIds, i + 1)

\* a pre-fetch by client id alone
GetExistingWorkoutsMapOfAnyUser(rows, userId, clientIds, hi) ==
    IndexByClientId({w \in rows : w.clientId \in clientIds}, hi)

GetExistingWorkoutsMap(rows, userId, clientIds, hi) ==
    IndexByClientId({w \in rows : w.userId = userId /\ w.clientId \in clientIds}, hi)

\* the workouts the change feed returns: one entry per workout id
GetServerWorkoutsSince(rows, userId, since) ==
    {w.id : w \in {w \in rows : w.userId = userId /\ w.updatedAt > since}}

(***************************************************************************)
(* The change feed's query and fold (syncService.ts 608-696).  Ids and     *)
(* client ids are strings; a missing client id is the empty string.        *)
(***************************************************************************)
\* the side of a left join that matched nothing
NoRow == [id |-> ""]

\* workouts LEFT JOIN workout_exercises LEFT JOIN sets, as a set of rows
LeftJoin(ws, es, ss) ==
    UNION {
      LET ofW == {e \in es : e.workoutId = w.id}
      IN  IF ofW = {}
          THEN {[workouts |-> w, workout_exercises |-> NoRow, sets |-> NoRow]}
          ELSE UNION {
                 LET ofE == {r \in ss : r.workoutExerciseId = e.id}
                 IN  IF ofE = {}
                     THEN {[workouts |-> w, workout_exercises |-> e,
                            sets |-> NoRow]}
                     ELSE {[workouts |-> w, workout_exercises |-> e,
                            sets |-> r] : r \in ofE}
                 : e \in ofW}
      : w \in ws}

\* the orders the query may return the joined rows in: ascending by the
\* workout's date, rows of equal date in any order
OrderByDate(rows) ==
    LET n == Cardinality(rows)
    IN  {q \in [1..n -> rows] :
           /\ \A i, j \in 1..n : i # j => q[i] # q[j]
           /\ \A i, j \in 1..n : i < j => q[i].workouts.date <= q[j].workouts.date}

\* a JavaScript Map as the sequence of its entries in insertion order
MapIndex(map, key) ==
    LET hits == {i \in 1..Len(map) : map[i].key = key}
    IN  IF hits = {} THEN 0 ELSE CHOOSE i \in hits : TRUE

\* a Map that never finds a key
MapHasNothing(map, key) == FALSE

MapHas(map, key) == MapIndex(map, key) # 0

MapGet(map, key) == map[MapIndex(map, key)].value

MapSet(map, key, value) ==
    IF MapIndex(map, key) # 0
    THEN [map EXCEPT ![MapIndex(map, key)].value = value]
    ELSE Append(map, [key |-> key, value |-> value])

MapValues(map) == [i \in 1..Len(map) |-> map[i].value]

\* clientId || id
ClientIdOr(clientId, id) == IF clientId = "" THEN id ELSE clientId

\* the loop over the joined rows
RECURSIVE FoldRows(_, _, _, _)
FoldRows(serverData, i, workoutMap, exerciseMap) ==
    IF i > Len(serverData)
    THEN [workoutMap |-> workoutMap, exerciseMap |-> exerciseMap]
    ELSE LET row == serverData[i]
         IN  IF row.workouts = NoRow
             THEN FoldRows(serverData, i + 1, workoutMap, exerciseMap)
             ELSE
               LET workoutId == row.workouts.id
                   isNew == ~MapHas(workoutMap, workoutId)
                   wm == IF isNew
                         THEN MapSet(workoutMap, workoutId,
                                [clientId |-> ClientIdOr(row.workouts.clientId,
                                                         workoutId),
                                 date |-> row.workouts.date,
                                 exercises |-> <<>>])
                         ELSE workoutMap
                   em == IF isNew THEN MapSet(exerciseMap, workoutId, <<>>)
                         ELSE exerciseMap
                   exerciseId == row.workout_exercises.id
                   ofWorkout == MapGet(em, workoutId)
                   withExercise ==
                       IF MapHas(ofWorkout, exerciseId) THEN ofWorkout
                       ELSE MapSet(ofWorkout, exerciseId,
                              [clientId |-> ClientIdOr(
                                              row.workout_exercises.clientId,
                                              exerciseId),
                               sets |-> <<>>])
                   exercise == MapGet(withExercise, exerciseId)
                   withSet ==
                       IF row.sets = NoRow THEN withExercise
                       ELSE MapSet(withExercise, exerciseId,
                              [exercise EXCEPT !.sets =
                                 Append(@, [clientId |->
                                              ClientIdOr(row.sets.clientId,
                                                         row.sets.id),
                                            reps |-> row.sets.reps])])
               IN  IF row.workout_exercises = NoRow
                   THEN FoldRows(serverData, i + 1, wm, em)
                   ELSE FoldRows(serverData, i + 1, wm,
                                 MapSet(em, workoutId, withSet))

transformServerDataToClientFormat(serverData) ==
    LET folded == FoldRows(serverData, 1, <<>>, <<>>)
    IN  [i \in 1..Len(folded.workoutMap) |->
           [folded.workoutMap[i].value EXCEPT !.exercises =
              MapValues(MapGet(folded.exerciseMap, folded.workoutMap[i].key))]]

(***************************************************************************)
(* Pagination cursors (programService.ts, templateService.ts).  A string  *)
(* is a sequence of code points, a cursor a sequence of base64url digits. *)
(***************************************************************************)
\* the code points strings are built from: the quote, the backslash, the
\* letter a and a letter outside ASCII (e acute)
CursorChars == {34, 92, 97, 233}

\* a name of the greatest length a template or program accepts, written in
\* letters outside ASCII
LongString == [i \in 1..MAX_NAME_LENGTH |-> 233]

CursorStrings == SeqsUpTo(CursorChars, MaxStringLen) \cup {LongString}

\* 'name', 'createdAt', 'updatedAt'
validSortFields ==
    {<<110, 97, 109, 101>>,
     <<99, 114, 101, 97, 116, 101, 100, 65, 116>>,
     <<117, 112, 100, 97, 116, 101, 100, 65, 116>>}

\* a sortValue: null, a number (finite or not: NaN, Infinity) or a string
NullValue == [type |-> "null", s |-> <<>>, n |-> 0, finite |-> TRUE]
NumberValue(n) == [type |-> "number", s |-> <<>>, n |-> n, finite |-> TRUE]
NotANumber == [type |-> "number", s |-> <<>>, n |-> 0, finite |-> FALSE]
StringValue(s) == [type |-> "string", s |-> s, n |-> 0, finite |-> TRUE]

SortValues ==
    {NullValue, NotANumber} \cup {NumberValue(n) : n \in 0..MaxNumber}
       \cup {StringValue(s) : s \in CursorStrings}

\* the cursor values: a non-empty id, a sortValue and a valid sortField
CursorData ==
    [id : {s \in CursorStrings : Len(s) = 1}, sortValue : SortValues,
     sortField : validSortFields]

\* JSON.stringify of a string: the quote and the backslash are escaped
EscapeChar(c) == IF c \in {34, 92} THEN <<92, c>> ELSE <<c>>

RECURSIVE EscapeRange(_, _, _)
EscapeRange(s, lo, hi) ==
    IF lo > hi THEN <<>>
    ELSE IF lo = hi THEN EscapeChar(s[lo])
    ELSE LET mid == (lo + hi) \div 2
         IN  EscapeRange(s, lo, mid) \o EscapeRange(s, mid + 1, hi)

StringifyString(s) == <<34>> \o EscapeRange(s, 1, Len(s)) \o <<34>>

\* JSON.stringify of a number: its decimal digits; null when it is not finite
RECURSIVE Digits(_)
Digits(n) == IF n < 10 THEN <<48 + n>> ELSE Digits(n \div 10) \o <<48 + (n % 10)>>

JsonNull == <<110, 117, 108, 108>>

StringifyValue(v) ==
    IF v.type = "string" THEN StringifyString(v.s)
    ELSE IF v.type = "number" /\ v.finite THEN Digits(v.n)
    ELSE JsonNull

\* {"id":
IdKey == <<123, 34, 105, 100, 34, 58>>
\* ,"sortValue":
SortValueKey == <<44, 34, 115, 111, 114, 116, 86, 97, 108, 117, 101, 34, 58>>
\* ,"sortField":
SortFieldKey == <<44, 34, 115, 111, 114, 116, 70, 105, 101, 108, 100, 34, 58>>

JsonStringify(data) ==
    IdKey \o StringifyString(data.id) \o SortValueKey
          \o StringifyValue(data.sortValue) \o SortFieldKey
          \o StringifyString(data.sortField) \o <<125>>

\* Buffer.from(text): the UTF-8 bytes of the code points
Utf8Char(c) == IF c < 128 THEN <<c>> ELSE <<192 + (c \div 64), 128 + (c % 64)>>

RECURSIVE Utf8Range(_, _, _)
Utf8Range(s, lo, hi) ==
    IF lo > hi THEN <<>>
    ELSE IF lo = hi THEN Utf8Char(s[lo])
    ELSE LET mid == (lo + hi) \div 2
         IN  Utf8Range(s, lo, mid) \o Utf8Range(s, mid + 1, hi)

Utf8Encode(s) == Utf8Range(s, 1, Len(s))

\* toString('utf8'): a lead byte and its continuation byte give one code point
Utf8Decode(bytes) ==
    LET n == Len(bytes)
        units == [i \in 1..n |->
                    [keep |-> bytes[i] < 128 \/ bytes[i] >= 192,
                     c |-> IF bytes[i] < 128 THEN bytes[i]
                           ELSE IF bytes[i] >= 192 /\ i < n
                           THEN (bytes[i] - 192) * 64 + (bytes[i + 1] - 128)
                           ELSE 0]]
        Kept(u) == u.keep
        kept == SelectSeq(units, Kept)
    IN  [i \in 1..Len(kept) |-> kept[i].c]

\* toString('base64url'): six bits per digit, no padding
Base64UrlEncode(bytes) ==
    LET n == Len(bytes)
        B(i) == IF i <= n THEN bytes[i] ELSE 0
    IN  [k \in 1..((4 * n + 2) \div 3) |->
           LET g == (k - 1) \div 4
               b0 == B(3 * g + 1)
               b1 == B(3 * g + 2)
               b2 == B(3 * g + 3)
           IN  CASE (k - 1) % 4 = 0 -> b0 \div 4
                 [] (k - 1) % 4 = 1 -> (b0 % 4) * 16 + (b1 \div 16)
                 [] (k - 1) % 4 = 2 -> (b1 % 16) * 4 + (b2 \div 64)
                 [] OTHER -> b2 % 64]

\* Buffer.from(cursor, 'base64url')
Base64UrlDecode(digits) ==
    LET m == Len(digits)
        D(i) == IF i <= m THEN digits[i] ELSE 0
    IN  [j \in 1..((3 * m) \div 4) |->
           LET g == (j - 1) \div 3
               d0 == D(4 * g + 1)
               d1 == D(4 * g + 2)
               d2 == D(4 * g + 3)
               d3 == D(4 * g + 4)
           IN  CASE (j - 1) % 3 = 0 -> d0 * 4 + (d1 \div 16)
                 [] (j - 1) % 3 = 1 -> (d1 % 16) * 16 + (d2 \div 4)
                 [] OTHER -> (d2 % 4) * 64 + d3]

encodeCursor(data) == Base64UrlEncode(Utf8Encode(JsonStringify(data)))

\* JSON.parse, for the texts JsonStringify writes.
\* the text has the literal at position pos
Expect(text, pos, lit) ==
    /\ pos + Len(lit) - 1 <= Len(text)
    /\ SubSeq(text, pos, pos + Len(lit) - 1) = lit

\* the number of backslashes that end right before position j, after i
BackslashRun(text, i, j) ==
    LET stops == {k \in i..(j - 1) : text[k] # 92}
        last == CHOOSE k \in stops : \A q \in stops : q <= k
    IN  (j - 1) - last

\* the positions after the opening quote at i where a quote closes the string
ClosingQuotes(text, i) ==
    {j \in (i + 1)..Len(text) :
        text[j] = 34 /\ BackslashRun(text, i, j) % 2 = 0}

\* the string between the quotes at i and j, its escapes resolved
Unescape(text, i, j) ==
    LET units == [k \in 1..(j - i - 1) |->
                    [c |-> text[i + k],
                     keep |-> ~(text[i + k] = 92
                                 /\ BackslashRun(text, i, i + k) % 2 = 0)]]
        Kept(u) == u.keep
        kept == SelectSeq(units, Kept)
    IN  [k \in 1..Len(kept) |-> kept[k].c]

NoParse == [ok |-> FALSE, value |-> <<>>, next |-> 0]

ParseString(text, i) ==
    IF i > Len(text) \/ text[i] # 34 \/ ClosingQuotes(text, i) = {}
    THEN NoParse
    ELSE LET j == CHOOSE q \in ClosingQuotes(text, i) :
                      \A r \in ClosingQuotes(text, i) : q <= r
         IN  [ok |-> TRUE, value |-> Unescape(text, i, j), next |-> j + 1]

RECURSIVE NumberOf(_)
NumberOf(digits) ==
    IF digits = <<>> THEN 0
    ELSE 10 * NumberOf(SubSeq(digits, 1, Len(digits) - 1))
           + (digits[Len(digits)] - 48)

ParseValue(text, i) ==
    IF i > Len(text) THEN NoParse
    ELSE IF text[i] = 34
    THEN LET str == ParseString(text, i)
         IN  IF str.ok THEN [str EXCEPT !.value = StringValue(@)] ELSE NoParse
    ELSE IF Expect(text, i, JsonNull)
    THEN [ok |-> TRUE, value |-> NullValue, next |-> i + Len(JsonNull)]
    ELSE LET ends == {j \in i..Len(text) : text[j] \notin 48..57}
             j == IF ends = {} THEN Len(text) + 1
                  ELSE CHOOSE q \in ends : \A r \in ends : q <= r
         IN  IF j = i THEN NoParse
             ELSE [ok |-> TRUE,
                   value |-> NumberValue(NumberOf(SubSeq(text, i, j - 1))),
                   next |-> j]

JsonParse(text) ==
    IF ~Expect(text, 1, IdKey) THEN NoParse
    ELSE LET id == ParseString(text, Len(IdKey) + 1)
         IN  IF ~id.ok \/ ~Expect(text, id.next, SortValueKey) THEN NoParse
             ELSE LET sortValue == ParseValue(text, id.next + Len(SortValueKey))
                  IN  IF ~sortValue.ok \/ ~Expect(text, sortValue.next, SortFieldKey)
                      THEN NoParse
                      ELSE LET sortField ==
                                 ParseString(text, sortValue.next + Len(SortFieldKey))
                           IN  IF ~sortField.ok
                                  \/ sortField.next # Len(text)
                                  \/ text[Len(text)] # 125
                               THEN NoParse
                               ELSE [ok |-> TRUE, next |-> Len(text) + 1,
                                     value |-> [id |-> id.value,
                                                sortValue |-> sortValue.value,
                                                sortField |-> sortField.value]]

isValidCursorData(data) ==
    /\ Len(data.id) # 0
    /\ data.sortValue.type \in {"null", "string", "number"}
    /\ data.sortField \in validSortFields

\* what decodeCursor returns in place of a cursor value
NoCursor == [id |-> <<>>, sortValue |-> NullValue, sortField |-> <<>>]

decodeCursor(cursor) ==
    IF Len(cursor) > MAX_CURSOR_LENGTH THEN NoCursor
    ELSE LET parsed == JsonParse(Utf8Decode(Base64UrlDecode(cursor)))
         IN  IF ~parsed.ok THEN NoCursor
             ELSE IF ~isValidCursorData(parsed.value) THEN NoCursor
             ELSE parsed.value

(***************************************************************************)
(* optionalAuthMiddleware.  An Authorization header is a sequence of       *)
(* pieces of text; "Bearer " is the scheme prefix the middleware looks for *)
(***************************************************************************)
HeaderPieces == {"Bearer ", "Basic ", "t1", "t2"}

\* the header is absent or empty, or holds some text
Authorizations ==
    {[present |-> FALSE, value |-> <<>>]}
       \cup {[present |-> TRUE, value |-> v] :
               v \in SeqsUpTo(HeaderPieces, MaxHeaderLen) \ {<<>>}}

\* authorization.startsWith('Bearer ')
StartsWithBearer(v) == Len(v) >= 1 /\ v[1] = "Bearer "

\* the whole header taken for the token
SplitBearerWhole(v) == v

\* authorization.split('Bearer ')[1], for a header that starts with the
\* prefix: the text up to the next occurrence of the prefix
SplitBearerSecond(v) ==
    LET again == {i \in 2..Len(v) : v[i] = "Bearer "}
        stop == IF again = {} THEN Len(v) + 1
                ELSE CHOOSE i \in again : \A j \in again : i <= j
    IN  SubSeq(v, 2, stop - 1)

(***************************************************************************)
(* validateSyncPayload (validation.ts 384-517), error by error.  A payload *)
(* is an object whose workouts, exercises and sets are arrays of objects;  *)
(* a name is a sequence of code points, a missing string the empty one, a  *)
(* weight or a number of reps a number or NaN.                             *)
(***************************************************************************)
\* the loop over the sets of one exercise
RECURSIVE ValidateSets(_, _, _)
ValidateSets(ss, k, errors) ==
    IF k > Len(ss) THEN errors
    ELSE LET set == ss[k]
             e1 == IF set.clientId = ""
                   THEN Append(errors, "sets[k].clientId is required and must be a string")
                   ELSE errors
             e2 == IF ~set.weight.finite
                   THEN Append(e1, "sets[k].weight is required and must be a number")
                   ELSE IF set.weight.n < 0 \/ set.weight.n > MAX_WEIGHT_LBS
                   THEN Append(e1, "sets[k].weight must be between 0 and MAX_WEIGHT_LBS")
                   ELSE e1
             e3 == IF ~set.reps.finite
                   THEN Append(e2, "sets[k].reps is required and must be a number")
                   ELSE IF set.reps.n < 0 \/ set.reps.n > MAX_REPS
                   THEN Append(e2, "sets[k].reps must be between 0 and MAX_REPS")
                   ELSE e2
         IN  ValidateSets(ss, k + 1, e3)

\* the loop over the exercises of one workout
RECURSIVE ValidateExercises(_, _, _)
ValidateExercises(exs, j, errors) ==
    IF j > Len(exs) THEN errors
    ELSE LET exercise == exs[j]
             e1 == IF exercise.clientId = ""
                   THEN Append(errors, "exercises[j].clientId is required and must be a string")
                   ELSE errors
             e2 == IF exercise.exerciseName = <<>>
                   THEN Append(e1, "exercises[j].exerciseName is required")
                   ELSE IF Len(exercise.exerciseName) > MAX_EXERCISE_NAME_LENGTH
                   THEN Append(e1, "exercises[j].exerciseName cannot exceed MAX_EXERCISE_NAME_LENGTH characters")
                   ELSE e1
         IN  IF Len(exercise.sets) > MAX_SETS_PER_EXERCISE
             THEN ValidateExercises(exs, j + 1,
                    Append(e2, "exercises[j] has too many sets"))
             ELSE ValidateExercises(exs, j + 1, ValidateSets(exercise.sets, 1, e2))

\* the marker is pushed once, at the end of the body of the loop over the
\* workouts
StopMarker == "Too many validation errors. Stopping validation."

\* errors.length > 20
StopsEarly(errors) == Len(errors) > TOO_MANY_ERRORS

\* the loop over the workouts; a continue skips the check at the end of the
\* loop's body
RECURSIVE ValidateWorkouts(_, _, _)
ValidateWorkouts(ws, i, errors) ==
    IF i > Len(ws) THEN errors
    ELSE LET workout == ws[i]
             e1 == IF workout.clientId = ""
                   THEN Append(errors, "workouts[i].clientId is required and must be a string")
                   ELSE errors
             e2 == IF Len(workout.name) > MAX_WORKOUT_NAME_LENGTH
                   THEN Append(e1, "workouts[i].name cannot exceed MAX_WORKOUT_NAME_LENGTH characters")
                   ELSE e1
         IN  IF Len(workout.exercises) > MAX_EXERCISES_PER_WORKOUT
             THEN ValidateWorkouts(ws, i + 1,
                    Append(e2, "workouts[i] has too many exercises"))
             ELSE LET e3 == ValidateExercises(workout.exercises, 1, e2)
                  IN  IF StopsEarly(e3) THEN Append(e3, StopMarker)
                      ELSE ValidateWorkouts(ws, i + 1, e3)

validateSyncPayload(payload) ==
    LET e1 == IF payload.deviceId = <<>>
              THEN <<"deviceId is required and must be a string">>
              ELSE IF Len(payload.deviceId) > MAX_DEVICE_ID_LENGTH
              THEN <<"deviceId cannot exceed 100 characters">>
              ELSE <<>>
        errors == IF Len(payload.workouts) > MAX_WORKOUTS_PER_SYNC
                  THEN Append(e1, "Too many workouts")
                  ELSE ValidateWorkouts(payload.workouts, 1, e1)
    IN  [valid |-> errors = <<>>, errors |-> errors]

(***************************************************************************)
(* State.                                                                  *)
(***************************************************************************)
VARIABLES
    now,                \* the server clock
    nextId,             \* per device: the next fresh row id
    workouts,           \* table workouts
    workoutExercises,   \* table workout_exercises
    sets,               \* table sets
    exercises,          \* table exercises, the catalog
    syncConflictLog,    \* table sync_conflict_log, in insertion order
    syncMetadata,       \* table sync_metadata
    userDevices,        \* table user_devices
    userExerciseHistory, \* table user_exercise_history: use counts
    call,               \* per device: the syncUserData call in progress
    client,             \* per device: the last payload sent and response got
    budget,             \* calls and replays started so far
    audit,              \* per device: what the current call has done, and
                        \* the workouts that other devices of the user
                        \* changed and the device was not sent yet (owed;
                        \* due: owed when the current call started),
                        \* whether the user had no workout when the call
                        \* started (fresh) and the catalog's names then
    ev,                 \* the last workout step, right after it
    page,               \* a pagination cursor handed out and read back
    req,                \* a request passing optionalAuthMiddleware
    joined,             \* the rows a change feed's query returned, folded
    validation,         \* a payload handed to validateSyncPayload
    workoutPrograms,    \* table workout_programs
    programWeeks,       \* table program_weeks
    programCalls        \* the calls of the program service in progress

programVars == <<workoutPrograms, programWeeks, programCalls>>

vars == <<now, nextId, workouts, workoutExercises, sets, exercises,
          syncConflictLog, syncMetadata, userDevices, userExerciseHistory,
          call, client, budget, audit, ev, page, req, joined, validation, programVars>>

NoStats == [uploaded |-> 0, downloaded |-> 0, conflicts |-> 0]

IdleCall ==
    [pc |-> "idle", payload |-> <<>>, since |-> 0, syncStart |-> 0,
     existing |-> <<>>, idx |-> 1, libraryIds |-> <<>>, workoutId |-> 0,
     retryCount |-> 0, error |-> "", failedAt |-> "",
     conflicts |-> <<>>, stats |-> NoStats, serverWorkouts |-> {},
     deviceId |-> "", selected |-> <<>>]

NoResponse ==
    [success |-> FALSE, error |-> "", syncedAt |-> 0, conflicts |-> <<>>,
     serverData |-> [workouts |-> {}, lastServerSync |-> 0], stats |-> NoStats]

Tables(d) ==
    [workouts |-> workouts, wex |-> workoutExercises, sets |-> sets,
     nid |-> nextId[d]]

Stored ==
    [workouts |-> workouts, wex |-> workoutExercises, sets |-> sets,
     exercises |-> exercises, log |-> syncConflictLog]

NoStored ==
    [workouts |-> {}, wex |-> {}, sets |-> {}, exercises |-> {}, log |-> <<>>]

NoWorkoutData ==
    [clientId |-> "", val |-> "", updatedAt |-> 0, exercises |-> <<>>]

NoEv ==
    [op |-> "none", d |-> "", wd |-> NoWorkoutData, workoutId |-> 0,
     serverTimestamp |-> 0, pre |-> NoStored]

InitSync ==
    /\ now = 1
    /\ nextId = [d \in Devices |-> IdBase(d)]
    /\ workouts = {}
    /\ workoutExercises = {}
    /\ sets = {}
    /\ exercises = {}
    /\ syncConflictLog = <<>>
    /\ syncMetadata = {}
    /\ userDevices = {}
    /\ userExerciseHistory = <<>>
    /\ call = [d \in Devices |-> IdleCall]
    /\ client = [d \in Devices |->
                   [synced |-> FALSE, payload |-> <<>>, response |-> NoResponse,
                    body |-> NoBody]]
    /\ budget = [calls |-> 0, replays |-> 0, pulls |-> 0, faults |-> 0,
                 deletes |-> 0]
    /\ audit = [d \in Devices |->
                  [replay |-> FALSE, created |-> 0, snap |-> NoStored,
                   owed |-> {}, due |-> {}, fresh |-> FALSE, names |-> {}]]
    /\ ev = NoEv

\* no cursor was handed out, no request is in the middleware
NoPage ==
    [original |-> NoCursor, data |-> NoCursor, cursor |-> <<>>,
     stage |-> "none", cycles |-> 0]

NoReq ==
    [pc |-> "none", authorization |-> [present |-> FALSE, value |-> <<>>],
     token |-> <<>>, user |-> <<>>, verified |-> "none", verifierCalls |-> 0,
     nextCalls |-> 0, responses |-> 0]

\* no query result is being folded
NoJoined == [rows |-> <<>>, result |-> <<>>, stage |-> "none"]

\* no payload is being validated
NoValidation ==
    [payload |-> [deviceId |-> <<>>, workouts |-> <<>>],
     result |-> [valid |-> FALSE, errors |-> <<>>], stage |-> "none"]

\* the sessions that call the program service, none of them in a call
ProgramSessions == {"s1", "s2"}

NoProgramRow ==
    [id |-> "", userId |-> "", daysPerWeek |-> 0, currentDayIndex |-> 0,
     timesCompleted |-> 0]

IdleProgramCall ==
    [pc |-> "idle", op |-> "", programId |-> "", userId |-> "",
     updates |-> [daysPerWeek |-> 0], existing |-> NoProgramRow]

NoProgramCalls ==
    [started |-> 0, of |-> [s \in ProgramSessions |-> IdleProgramCall]]

\* no program exists
NoPrograms ==
    /\ workoutPrograms = {}
    /\ programWeeks = {}
    /\ programCalls = NoProgramCalls

Init ==
    /\ InitSync
    /\ page = NoPage /\ req = NoReq /\ joined = NoJoined
    /\ validation = NoValidation
    /\ NoPrograms

(***************************************************************************)
(* syncUserData, one action per await.                                     *)
(***************************************************************************)
CurrentWorkout(d) == call[d].payload[call[d].idx]

InLoop(d) == call[d].pc = "loop" /\ call[d].idx <= Len(call[d].payload)

HasExisting(d) == CurrentWorkout(d).clientId \in DOMAIN call[d].existing

ExistingWorkout(d) == call[d].existing[CurrentWorkout(d).clientId]

\* the device sends payload pl: the call starts with updateDeviceInfo.  A
\* client passes the lastServerSync of its previous response as
\* lastSyncTimestamp, and none (the epoch) on its first sync.
StartCall(d, pl, isReplay) ==
    /\ call[d].pc = "idle"
    /\ call' = [call EXCEPT ![d] =
                  [IdleCall EXCEPT
                     !.pc = "syncing", !.payload = pl, !.syncStart = now,
                     !.deviceId = d,
                     !.since = IF client[d].synced
                               THEN client[d].response.serverData.lastServerSync
                               ELSE 0]]
    /\ userDevices' = UpdateDeviceInfo(userDevices, nextId[d], UserOf(d), d, now)
    /\ nextId' = [nextId EXCEPT ![d] = @ + IdStride]
    /\ audit' = [audit EXCEPT ![d] =
                   [replay |-> isReplay, created |-> 0,
                    snap |-> IF isReplay THEN Stored ELSE NoStored,
                    owed |-> audit[d].owed, due |-> audit[d].owed,
                    fresh |-> \A w \in workouts : w.userId # UserOf(d),
                    names |-> {e.name : e \in exercises}]]
    /\ ev' = NoEv
    /\ UNCHANGED <<now, workouts, workoutExercises, sets, exercises,
                   syncConflictLog, syncMetadata, userExerciseHistory,
                   page, req, joined, validation, programVars>>

SyncStartWithin(d, payloads, limit) ==
    /\ budget.calls < limit
    /\ \E pl \in payloads : StartCall(d, pl, FALSE)
    /\ budget' = [budget EXCEPT !.calls = @ + 1]
    /\ UNCHANGED client

SyncStart(d, payloads) == SyncStartWithin(d, payloads, MaxCalls)

\* the device sends its previous payload again
Replay(d) ==
    /\ client[d].synced
    /\ budget.replays < MaxReplays
    /\ StartCall(d, client[d].payload, TRUE)
    /\ budget' = [budget EXCEPT !.replays = @ + 1]
    /\ UNCHANGED client

\* the device has nothing to upload: a payload with an empty workouts array
PullStart(d) ==
    /\ budget.pulls < MaxPulls
    /\ StartCall(d, <<>>, FALSE)
    /\ budget' = [budget EXCEPT !.pulls = @ + 1]
    /\ UNCHANGED client

\* POST /api/sync: validateSyncPayload, then the 400 response or syncUserData
Submit(d, payloads) ==
    /\ call[d].pc = "idle"
    /\ budget.calls < MaxCalls
    /\ budget' = [budget EXCEPT !.calls = @ + 1]
    /\ \E pl \in payloads :
         \E body \in BodiesOf(pl) :
            IF ValidateSyncPayload(body) # {}
            THEN /\ client' = [client EXCEPT
                                 ![d].body = body,
                                 ![d].response =
                                    [NoResponse EXCEPT !.error = "Invalid sync payload"]]
                 /\ ev' = [NoEv EXCEPT !.op = "rejected", !.d = d, !.pre = Stored]
                 /\ UNCHANGED <<now, nextId, workouts, workoutExercises, sets,
                                exercises, syncConflictLog, syncMetadata,
                                userDevices, userExerciseHistory, call, audit,
                                page, req, joined, validation, programVars>>
            ELSE /\ StartCall(d, pl, FALSE)
                 /\ client' = [client EXCEPT ![d].body = body,
                                             ![d].response = NoResponse]

\* updateSyncMetadata(userId, 'syncing', deviceId)
MarkSyncing(d) ==
    /\ call[d].pc = "syncing"
    /\ syncMetadata' = UpdateSyncMetadata(syncMetadata, nextId[d], UserOf(d),
                                          "syncing", d, "")
    /\ nextId' = [nextId EXCEPT ![d] = @ + IdStride]
    /\ call' = [call EXCEPT ![d].pc = "prefetch"]
    /\ ev' = NoEv
    /\ UNCHANGED <<now, workouts, workoutExercises, sets, exercises,
                   syncConflictLog, userDevices, userExerciseHistory, client,
                   budget, audit, page, req, joined, validation, programVars>>

\* getExistingWorkoutsMap
Prefetch(d) ==
    /\ call[d].pc = "prefetch"
    /\ \E hi \in BOOLEAN :
         call' = [call EXCEPT
                    ![d].pc = "loop",
                    ![d].existing =
                       GetExistingWorkoutsMap(workouts, UserOf(d),
                                              ClientIdsOf(call[d].payload), hi)]
    /\ ev' = NoEv
    /\ UNCHANGED <<now, nextId, workouts, workoutExercises, sets, exercises,
                   syncConflictLog, syncMetadata, userDevices,
                   userExerciseHistory, client, budget, audit, page, req, joined, validation, programVars>>

EvOf(op, d, workoutId, serverTimestamp) ==
    [op |-> op, d |-> d, wd |-> CurrentWorkout(d), workoutId |-> workoutId,
     serverTimestamp |-> serverTimestamp, pre |-> Stored]

\* handleWorkoutUpdate, the server's copy is kept: the conflict is logged
\* and returned
ProcessConflict(d) ==
    /\ InLoop(d)
    /\ HasExisting(d)
    /\ ~WorkoutClientWins(CurrentWorkout(d).updatedAt, ExistingWorkout(d).updatedAt)
    /\ LET existingWorkout == ExistingWorkout(d)
           conflict == [entityType |-> "workout", entityId |-> existingWorkout.id,
                        clientData |-> CurrentWorkout(d),
                        serverData |-> existingWorkout,
                        resolution |-> "server_wins"]
       IN  IF CurrentWorkout(d).updatedAt = InvalidDate
           THEN /\ call' = [call EXCEPT ![d].pc = "failing",
                                        ![d].error = "Invalid time value",
                                        ![d].failedAt = "loop"]
                /\ ev' = EvOf("abort", d, existingWorkout.id, 0)
                /\ UNCHANGED syncConflictLog
           ELSE /\ syncConflictLog' =
                     LogSyncConflict(syncConflictLog, existingWorkout.userId,
                                     "workout", existingWorkout.id,
                                     CurrentWorkout(d), existingWorkout)
                /\ call' = [call EXCEPT
                              ![d].conflicts = Append(@, conflict),
                              ![d].stats.conflicts = @ + 1,
                              ![d].idx = @ + 1]
                /\ ev' = EvOf("conflict", d, existingWorkout.id,
                              existingWorkout.updatedAt)
    /\ UNCHANGED <<now, nextId, workouts, workoutExercises, sets, exercises,
                   syncMetadata, userDevices, userExerciseHistory, client,
                   budget, audit, page, req, joined, validation, programVars>>

\* createWorkoutFromSync or updateWorkoutFromSync is entered for the current
\* workout (again, when createWorkoutFromSync retries)
Entering(d) ==
    /\ InLoop(d)
    /\ HasExisting(d) =>
         WorkoutClientWins(CurrentWorkout(d).updatedAt, ExistingWorkout(d).updatedAt)

\* the name getOrCreateExerciseId is resolving
NameToResolve(d, ids) == CurrentWorkout(d).exercises[Len(ids) + 1].exerciseName

\* the transaction follows the last catalog lookup
AfterResolved(d, ids) ==
    IF Len(ids) = Len(CurrentWorkout(d).exercises) THEN "tx" ELSE "resolve"

\* the select of getOrCreateExerciseId for the next exercise of the current
\* workout; createWorkoutFromSync draws the workout's id before its first
\* lookup.  A workout without exercises goes straight to its transaction.
CatalogLookup(d) ==
    /\ Entering(d) \/ call[d].pc = "resolve"
    /\ LET entering == call[d].pc = "loop"
           ids == IF entering THEN <<>> ELSE call[d].libraryIds
           draws == entering /\ ~HasExisting(d)
           workoutId == IF HasExisting(d) THEN ExistingWorkout(d).id
                        ELSE IF entering THEN nextId[d] ELSE call[d].workoutId
           found == IF Len(ids) < Len(CurrentWorkout(d).exercises)
                    THEN ExistingExercise(exercises, NameToResolve(d, ids))
                    ELSE {}
       IN  /\ nextId' = [nextId EXCEPT ![d] = IF draws THEN @ + IdStride ELSE @]
           /\ call' = [call EXCEPT
                         ![d].workoutId = workoutId,
                         ![d].libraryIds = IF found # {}
                                           THEN Append(ids, FirstRow(found).id)
                                           ELSE ids,
                         ![d].pc = IF Len(ids) = Len(CurrentWorkout(d).exercises)
                                   THEN "tx"
                                   ELSE IF found # {}
                                        THEN AfterResolved(d, Append(ids, 0))
                                        ELSE "insert"]
    /\ ev' = NoEv
    /\ UNCHANGED <<now, workouts, workoutExercises, sets, exercises,
                   syncConflictLog, syncMetadata, userDevices,
                   userExerciseHistory, client, budget, audit, page, req, joined, validation, programVars>>

\* the insert of getOrCreateExerciseId: the name was not found by the select.
\* When a row holds the name by now the unique constraint throws; the lookups
\* are outside the try block of createWorkoutFromSync, so the error reaches
\* the catch of syncUserData.
CatalogInsert(d) ==
    /\ call[d].pc = "insert"
    /\ LET ids == call[d].libraryIds
           name == NameToResolve(d, ids)
       IN  IF NameTaken(exercises, name)
           THEN /\ call' = [call EXCEPT ![d].pc = "failing", ![d].error = "unique",
                                         ![d].failedAt = "insert"]
                /\ UNCHANGED <<exercises, nextId, audit>>
           ELSE /\ exercises' = exercises \cup {[id |-> nextId[d], name |-> name]}
                /\ nextId' = [nextId EXCEPT ![d] = @ + IdStride]
                /\ call' = [call EXCEPT
                              ![d].libraryIds = Append(ids, nextId[d]),
                              ![d].pc = AfterResolved(d, Append(ids, nextId[d]))]
                /\ audit' = [audit EXCEPT ![d].created = @ + 1]
    /\ ev' = NoEv
    /\ UNCHANGED <<now, workouts, workoutExercises, sets, syncConflictLog,
                   syncMetadata, userDevices, userExerciseHistory, client, budget,
                   page, req, joined, validation, programVars>>

\* the rows of tb2 whose id no row of tb1 has
NewRows(tb1, tb2) ==
    Cardinality({r.id : r \in tb2.workouts} \ {r.id : r \in tb1.workouts})
    + Cardinality({r.id : r \in tb2.wex} \ {r.id : r \in tb1.wex})
    + Cardinality({r.id : r \in tb2.sets} \ {r.id : r \in tb1.sets})

\* a committed workout step that is not counted in stats.uploaded
UploadedUncounted(d, tb) ==
    /\ workouts' = tb.workouts
    /\ workoutExercises' = tb.wex
    /\ sets' = tb.sets
    /\ nextId' = [nextId EXCEPT ![d] = tb.nid]
    /\ call' = [call EXCEPT ![d].pc = "loop", ![d].idx = @ + 1,
                            ![d].retryCount = 0]
    /\ audit' = [audit EXCEPT ![d].created = @ + NewRows(Tables(d), tb)]

\* what a committed workout step leaves in the call
Uploaded(d, tb) ==
    /\ workouts' = tb.workouts
    /\ workoutExercises' = tb.wex
    /\ sets' = tb.sets
    /\ nextId' = [nextId EXCEPT ![d] = tb.nid]
    /\ call' = [call EXCEPT ![d].pc = "loop", ![d].stats.uploaded = @ + 1,
                            ![d].idx = @ + 1, ![d].retryCount = 0]
    /\ audit' = [d2 \in Devices |->
                   IF d2 = d
                   THEN [audit[d] EXCEPT !.created = @ + NewRows(Tables(d), tb)]
                   ELSE IF UserOf(d2) = UserOf(d)
                        THEN [audit[d2] EXCEPT !.owed = @ \cup {call[d].workoutId}]
                        ELSE audit[d2]]

\* a transaction whose insert of the workout row outlives the error
WorkoutRowOutlivesError(d) ==
    /\ ev' = EvOf("abort", d, call[d].workoutId, 0)
    /\ workouts' = workouts \cup
                     {NewWorkoutRow(call[d].workoutId, UserOf(d), CurrentWorkout(d),
                                    CurrentWorkout(d).updatedAt, now)}
    /\ UNCHANGED <<workoutExercises, sets, nextId, audit>>

\* a transaction that threw leaves the tables as they were
RolledBack(d) ==
    /\ ev' = EvOf("abort", d, call[d].workoutId, 0)
    /\ UNCHANGED <<workouts, workoutExercises, sets, nextId, audit>>

\* one retry more than MAX_RETRIES
RetryOnceMore(d) ==
    call' = IF call[d].retryCount <= MAX_RETRIES
            THEN [call EXCEPT ![d].pc = "loop", ![d].retryCount = @ + 1]
            ELSE [call EXCEPT ![d].pc = "failing", ![d].error = "foreign key",
                              ![d].failedAt = "tx"]

\* the catch of createWorkoutFromSync for a foreign-key error: the function
\* calls itself with retryCount + 1, or throws the error again
RetryOrRethrow(d) ==
    call' = IF call[d].retryCount < MAX_RETRIES
            THEN [call EXCEPT ![d].pc = "loop", ![d].retryCount = @ + 1]
            ELSE [call EXCEPT ![d].pc = "failing", ![d].error = "foreign key",
                              ![d].failedAt = "tx"]

\* createWorkoutFromSync: the transaction, then recordExerciseUsage.  The
\* insert of a workout whose clientUpdatedAt is an Invalid Date throws.  A
\* foreign-key error is retried, with a new id and new lookups, while
\* retryCount < MAX_RETRIES; otherwise the error is thrown again.
CreateTx(d) ==
    /\ call[d].pc = "tx"
    /\ ~HasExisting(d)
    /\ LET tb == CreateWorkoutTx(Tables(d), call[d].workoutId, UserOf(d),
                                 CurrentWorkout(d), CurrentWorkout(d).updatedAt,
                                 call[d].libraryIds, now)
       IN  IF CurrentWorkout(d).updatedAt = InvalidDate
           THEN /\ RolledBack(d)
                /\ call' = [call EXCEPT ![d].pc = "failing",
                                        ![d].error = "Invalid time value",
                                        ![d].failedAt = "tx"]
                /\ UNCHANGED userExerciseHistory
           ELSE IF ForeignKeyViolated(workoutExercises, tb.wex, exercises)
           THEN /\ RolledBack(d)
                /\ RetryOrRethrow(d)
                /\ UNCHANGED userExerciseHistory
           ELSE /\ Uploaded(d, tb)
                /\ userExerciseHistory' =
                     RecordExerciseUsage(userExerciseHistory, UserOf(d),
                                         call[d].libraryIds, 1)
                /\ ev' = EvOf("create", d, call[d].workoutId, 0)
    /\ UNCHANGED <<now, exercises, syncConflictLog, syncMetadata, userDevices,
                   client, budget, page, req, joined, validation, programVars>>

\* the sequence without its k-th element
Without(seq, k) ==
    [i \in 1..(Len(seq) - 1) |-> IF i < k THEN seq[i] ELSE seq[i + 1]]

\* createWorkoutFromSync whose transaction commits and whose k-th call of
\* recordExerciseUsage throws: the error is caught inside the loop and
\* logged as a warning, the other calls are made and the workout counts as
\* uploaded
CreateTxUsageFault(d) ==
    /\ call[d].pc = "tx"
    /\ ~HasExisting(d)
    /\ budget.faults < MaxFaults
    /\ budget' = [budget EXCEPT !.faults = @ + 1]
    /\ CurrentWorkout(d).updatedAt # InvalidDate
    /\ LET tb == CreateWorkoutTx(Tables(d), call[d].workoutId, UserOf(d),
                                 CurrentWorkout(d), CurrentWorkout(d).updatedAt,
                                 call[d].libraryIds, now)
       IN  /\ ~ForeignKeyViolated(workoutExercises, tb.wex, exercises)
           /\ workouts' = tb.workouts
           /\ workoutExercises' = tb.wex
           /\ sets' = tb.sets
           /\ nextId' = [nextId EXCEPT ![d] = tb.nid]
           /\ audit' = [audit EXCEPT ![d].created = @ + NewRows(Tables(d), tb)]
    /\ \E k \in 1..Len(call[d].libraryIds) :
         userExerciseHistory' =
           RecordExerciseUsage(userExerciseHistory, UserOf(d),
                               Without(call[d].libraryIds, k), 1)
    /\ call' = [call EXCEPT ![d].pc = "loop", ![d].stats.uploaded = @ + 1,
                            ![d].idx = @ + 1, ![d].retryCount = 0,
                            ![d].failedAt = "usage"]
    /\ ev' = EvOf("create", d, call[d].workoutId, 0)
    /\ UNCHANGED <<now, exercises, syncConflictLog, syncMetadata, userDevices,
                   client, page, req, joined, validation, programVars>>

\* handleWorkoutUpdate, the client's copy is newer: the transaction of
\* updateWorkoutFromSync; its errors are not caught before syncUserData
MergeTx(d) ==
    /\ call[d].pc = "tx"
    /\ HasExisting(d)
    /\ \E hi \in BOOLEAN :
         LET tb == UpdateWorkoutTx(Tables(d), call[d].workoutId, CurrentWorkout(d),
                                   CurrentWorkout(d).updatedAt,
                                   LibraryIdsByClientId(CurrentWorkout(d).exercises,
                                                        call[d].libraryIds),
                                   now, hi)
         IN  IF ForeignKeyViolated(workoutExercises, tb.wex, exercises)
             THEN /\ RolledBack(d)
                  /\ call' = [call EXCEPT ![d].pc = "failing",
                                          ![d].error = "foreign key",
                                          ![d].failedAt = "tx"]
             ELSE /\ Uploaded(d, tb)
                  /\ ev' = EvOf("merge", d, call[d].workoutId,
                                ExistingWorkout(d).updatedAt)
    /\ UNCHANGED <<now, exercises, syncConflictLog, syncMetadata, userDevices,
                   userExerciseHistory, client, budget, page, req, joined, validation, programVars>>

\* a change feed that leaves stats.downloaded as it was
FeedUncounted(d) ==
    /\ call[d].pc = "loop"
    /\ call[d].idx > Len(call[d].payload)
    /\ LET serverWorkouts == GetServerWorkoutsSince(workouts, UserOf(d), call[d].since)
       IN  /\ call' = [call EXCEPT
                         ![d].pc = "completing",
                         ![d].serverWorkouts = serverWorkouts]
           /\ audit' = [audit EXCEPT ![d].owed = @ \ serverWorkouts]
    /\ ev' = NoEv
    /\ UNCHANGED <<now, nextId, workouts, workoutExercises, sets, exercises,
                   syncConflictLog, syncMetadata, userDevices,
                   userExerciseHistory, client, budget, page, req, joined, validation, programVars>>

\* getServerWorkoutsSince, after the last workout
Feed(d) ==
    /\ call[d].pc = "loop"
    /\ call[d].idx > Len(call[d].payload)
    /\ LET serverWorkouts == GetServerWorkoutsSince(workouts, UserOf(d), call[d].since)
       IN  /\ call' = [call EXCEPT
                         ![d].pc = "completing",
                         ![d].serverWorkouts = serverWorkouts,
                         ![d].stats.downloaded = Cardinality(serverWorkouts)]
           /\ audit' = [audit EXCEPT ![d].owed = @ \ serverWorkouts]
    /\ ev' = NoEv
    /\ UNCHANGED <<now, nextId, workouts, workoutExercises, sets, exercises,
                   syncConflictLog, syncMetadata, userDevices,
                   userExerciseHistory, client, budget, page, req, joined, validation, programVars>>

\* updateSyncMetadata(userId, 'completed', deviceId) and the response
MarkCompleted(d) ==
    /\ call[d].pc = "completing"
    /\ syncMetadata' = UpdateSyncMetadata(syncMetadata, nextId[d], UserOf(d),
                                          "completed", d, "")
    /\ nextId' = [nextId EXCEPT ![d] = @ + IdStride]
    /\ client' = [client EXCEPT ![d] =
                    [synced |-> TRUE, payload |-> call[d].payload,
                     body |-> client[d].body,
                     response |->
                       [success |-> TRUE, error |-> "",
                        syncedAt |-> call[d].syncStart,
                        conflicts |-> call[d].conflicts,
                        serverData |-> [workouts |-> call[d].serverWorkouts,
                                        lastServerSync |-> call[d].syncStart],
                        stats |-> call[d].stats]]]
    /\ call' = [call EXCEPT ![d] = IdleCall]
    /\ ev' = NoEv
    /\ UNCHANGED <<now, workouts, workoutExercises, sets, exercises,
                   syncConflictLog, userDevices, userExerciseHistory, budget,
                   audit, page, req, joined, validation, programVars>>

\* the catch of syncUserData: updateSyncMetadata(userId, 'failed', deviceId,
\* error), then the error is thrown to the caller
MarkFailed(d) ==
    /\ call[d].pc = "failing"
    /\ syncMetadata' = UpdateSyncMetadata(syncMetadata, nextId[d], UserOf(d),
                                          "failed", d, call[d].error)
    /\ nextId' = [nextId EXCEPT ![d] = @ + IdStride]
    /\ client' = [client EXCEPT ![d].response =
                    [NoResponse EXCEPT !.error = call[d].error]]
    /\ call' = [call EXCEPT ![d] = IdleCall]
    /\ ev' = [NoEv EXCEPT !.op = "failed", !.d = d, !.pre = Stored]
    /\ UNCHANGED <<now, workouts, workoutExercises, sets, exercises,
                   syncConflictLog, userDevices, userExerciseHistory, budget,
                   audit, page, req, joined, validation, programVars>>

\* the statements of the try block that await the database
FaultPoints == {"syncing", "prefetch", "loop", "resolve", "insert", "tx", "completing"}

\* a database statement of the try block throws; a transaction is rolled back
Fault(d) ==
    /\ call[d].pc \in FaultPoints
    /\ budget.faults < MaxFaults
    /\ budget' = [budget EXCEPT !.faults = @ + 1]
    /\ call' = [call EXCEPT ![d].pc = "failing", ![d].error = "database",
                            ![d].failedAt = call[d].pc]
    /\ IF call[d].pc = "tx"
       THEN RolledBack(d)
       ELSE /\ ev' = NoEv
            /\ UNCHANGED <<workouts, workoutExercises, sets, nextId, audit>>
    /\ UNCHANGED <<now, exercises, syncConflictLog, syncMetadata, userDevices,
                   userExerciseHistory, client, page, req, joined, validation, programVars>>

\* updateSyncMetadata throws inside the catch: its error leaves syncUserData
\* and nothing is written
HandlerFault(d) ==
    /\ call[d].pc = "failing"
    /\ client' = [client EXCEPT ![d].response =
                    [NoResponse EXCEPT !.error = "database"]]
    /\ call' = [call EXCEPT ![d] = IdleCall]
    /\ ev' = [NoEv EXCEPT !.op = "thrown", !.d = d, !.pre = Stored]
    /\ UNCHANGED <<now, nextId, workouts, workoutExercises, sets, exercises,
                   syncConflictLog, syncMetadata, userDevices,
                   userExerciseHistory, budget, audit, page, req, joined, validation, programVars>>

\* a catalog row that no exercise instance references is deleted between a
\* call's lookup of it and the call's transaction (the case the retry of
\* createWorkoutFromSync is written for)
CatalogDelete ==
    /\ budget.deletes < MaxDeletes
    /\ budget' = [budget EXCEPT !.deletes = @ + 1]
    /\ \E e \in exercises :
         /\ \A x \in workoutExercises : x.exerciseId # e.id
         /\ \E d \in Devices :
              /\ call[d].pc = "tx"
              /\ \E i \in 1..Len(call[d].libraryIds) : call[d].libraryIds[i] = e.id
         /\ exercises' = exercises \ {e}
    /\ ev' = NoEv
    /\ UNCHANGED <<now, nextId, workouts, workoutExercises, sets,
                   syncConflictLog, syncMetadata, userDevices,
                   userExerciseHistory, call, client, audit, page, req, joined, validation, programVars>>

\* A call whose awaits of updateDeviceInfo and updateSyncMetadata are taken
\* one at a time: the select and the write that follows it are two steps,
\* and calls of one user may carry the same device id.  The call uploads
\* nothing.
SessionStart(d) ==
    /\ call[d].pc = "idle"
    /\ budget.calls < MaxSessionCalls
    /\ budget' = [budget EXCEPT !.calls = @ + 1]
    /\ \E deviceId \in DevicesOf(UserOf(d)) :
         call' = [call EXCEPT ![d] =
                    [IdleCall EXCEPT
                       !.pc = "device", !.syncStart = now,
                       !.deviceId = deviceId,
                       !.since = IF client[d].synced
                                 THEN client[d].response.serverData.lastServerSync
                                 ELSE 0]]
    /\ audit' = [audit EXCEPT ![d] =
                   [replay |-> FALSE, created |-> 0, snap |-> NoStored,
                    owed |-> audit[d].owed, due |-> audit[d].owed,
                    fresh |-> \A w \in workouts : w.userId # UserOf(d),
                    names |-> {e.name : e \in exercises}]]
    /\ ev' = NoEv
    /\ UNCHANGED <<now, nextId, workouts, workoutExercises, sets, exercises,
                   syncConflictLog, syncMetadata, userDevices,
                   userExerciseHistory, client, page, req, joined, validation, programVars>>

\* what `select ... limit 1` returns of the matching rows: no order is asked
\* for
LimitOne(rows) == IF rows = {} THEN {<<>>} ELSE {<<r>> : r \in rows}

\* updateDeviceInfo: the select
DeviceSelect(d) ==
    /\ call[d].pc = "device"
    /\ \E existingDevice \in LimitOne(MatchingDevices(userDevices, UserOf(d),
                                                      call[d].deviceId)) :
         call' = [call EXCEPT ![d].pc = "deviceWrite",
                              ![d].selected = existingDevice]
    /\ ev' = NoEv
    /\ UNCHANGED <<now, nextId, workouts, workoutExercises, sets, exercises,
                   syncConflictLog, syncMetadata, userDevices,
                   userExerciseHistory, client, budget, audit, page, req, joined, validation, programVars>>

\* updateDeviceInfo: the update or the insert
DeviceWrite(d) ==
    /\ call[d].pc = "deviceWrite"
    /\ userDevices' = WriteDeviceInfo(userDevices, call[d].selected, nextId[d],
                                      UserOf(d), call[d].deviceId, now)
    /\ nextId' = [nextId EXCEPT ![d] = @ + IdStride]
    /\ call' = [call EXCEPT ![d].pc = "syncing", ![d].selected = <<>>]
    /\ ev' = NoEv
    /\ UNCHANGED <<now, workouts, workoutExercises, sets, exercises,
                   syncConflictLog, syncMetadata, userExerciseHistory, client,
                   budget, audit, page, req, joined, validation, programVars>>

\* the three calls of updateSyncMetadata in syncUserData
MetadataPoints == {"syncing", "completing", "failing"}

StatusAt(pc) ==
    IF pc \in {"syncing", "syncingWrite"} THEN "syncing"
    ELSE IF pc \in {"completing", "completingWrite"} THEN "completed"
    ELSE "failed"

\* updateSyncMetadata: the select
MetadataSelect(d) ==
    /\ call[d].pc \in MetadataPoints
    /\ \E existingMetadata \in LimitOne(MatchingMetadata(syncMetadata, UserOf(d))) :
         call' = [call EXCEPT
                    ![d].pc = IF call[d].pc = "syncing" THEN "syncingWrite"
                              ELSE IF call[d].pc = "completing"
                                   THEN "completingWrite"
                                   ELSE "failingWrite",
                    ![d].selected = existingMetadata]
    /\ ev' = NoEv
    /\ UNCHANGED <<now, nextId, workouts, workoutExercises, sets, exercises,
                   syncConflictLog, syncMetadata, userDevices,
                   userExerciseHistory, client, budget, audit, page, req, joined, validation, programVars>>

\* updateSyncMetadata: the update or the insert; after 'completed' the
\* response is returned, after 'failed' the error is thrown to the caller
MetadataWrite(d) ==
    /\ call[d].pc \in {"syncingWrite", "completingWrite", "failingWrite"}
    /\ syncMetadata' = WriteSyncMetadata(syncMetadata, call[d].selected,
                                         nextId[d], UserOf(d),
                                         StatusAt(call[d].pc), call[d].deviceId,
                                         call[d].error)
    /\ nextId' = [nextId EXCEPT ![d] = @ + IdStride]
    /\ call' = [call EXCEPT ![d] =
                  IF call[d].pc = "syncingWrite"
                  THEN [@ EXCEPT !.pc = "prefetch", !.selected = <<>>]
                  ELSE IdleCall]
    /\ client' = [client EXCEPT ![d] =
                    IF call[d].pc = "syncingWrite" THEN @
                    ELSE IF call[d].pc = "completingWrite"
                    THEN [synced |-> TRUE, payload |-> call[d].payload,
                          body |-> client[d].body,
                          response |->
                            [success |-> TRUE, error |-> "",
                             syncedAt |-> call[d].syncStart,
                             conflicts |-> call[d].conflicts,
                             serverData |-> [workouts |-> call[d].serverWorkouts,
                                             lastServerSync |-> call[d].syncStart],
                             stats |-> call[d].stats]]
                    ELSE [@ EXCEPT !.response =
                            [NoResponse EXCEPT !.error = call[d].error]]]
    /\ ev' = IF call[d].pc = "failingWrite"
             THEN [NoEv EXCEPT !.op = "failed", !.d = d, !.pre = Stored]
             ELSE NoEv
    /\ UNCHANGED <<now, workouts, workoutExercises, sets, exercises,
                   syncConflictLog, userDevices, userExerciseHistory, budget,
                   audit, page, req, joined, validation, programVars>>

\* the server clock advances
Tick ==
    /\ now < MaxTime
    /\ now' = now + 1
    /\ ev' = NoEv
    /\ UNCHANGED <<nextId, workouts, workoutExercises, sets, exercises,
                   syncConflictLog, syncMetadata, userDevices,
                   userExerciseHistory, call, client, budget, audit,
                   page, req, joined, validation, programVars>>

Step(d) ==
    \/ MarkSyncing(d)
    \/ Prefetch(d)
    \/ ProcessConflict(d)
    \/ CatalogLookup(d)
    \/ CatalogInsert(d)
    \/ CreateTx(d)
    \/ MergeTx(d)
    \/ Feed(d)
    \/ MarkCompleted(d)

(***************************************************************************)
(* Spec: two devices of one user sync short payloads concurrently.         *)
(* SpecTree: one device syncs one nested workout, or the same workout      *)
(* twice, per call; the clock advances between calls.                      *)
(***************************************************************************)
Next ==
    \/ Tick
    \/ \E d \in DevicesOf("u1") :
         SyncStart(d, FlatPayloads[d]) \/ Step(d) \/ MarkFailed(d)

Spec == Init /\ [][Next]_vars

NextTree ==
    \/ call["d1"].pc = "idle" /\ Tick
    \/ SyncStart("d1", IF workouts = {} THEN SeedPayloads ELSE LaterPayloads)
    \/ Replay("d1")
    \/ Step("d1")

SpecTree == Init /\ [][NextTree]_vars

\* SpecFault: a device of each of two users, one call at a time; database
\* statements fail and catalog rows are deleted
AllIdle == \A d \in Devices : call[d].pc = "idle"

NextFault ==
    \/ AllIdle /\ Tick
    \/ CatalogDelete
    \/ \E d \in {"d1", "d3"} :
         \/ AllIdle /\ SyncStart(d, FaultPayloads)
         \/ Step(d)
         \/ Fault(d)
         \/ MarkFailed(d)
         \/ HandlerFault(d)

SpecFault == Init /\ [][NextFault]_vars

\* SpecFeed: one device of a user uploads, another device of the same user
\* only downloads
NextFeed ==
    \/ Tick
    \/ SyncStart("d2", {p \in FlatPayloads["d2"] : Len(p) = 1})
    \/ PullStart("d1")
    \/ \E d \in DevicesOf("u1") : Step(d)

SpecFeed == Init /\ [][NextFeed]_vars

\* SpecCatalog: a device of each of two users, one call at a time, workouts
\* whose exercises are renamed between syncs
NextCatalog ==
    \/ \E d \in {"d1", "d3"} :
         \/ AllIdle /\ SyncStartWithin(d, CatalogPayloads, MaxCatalogCalls)
         \/ Step(d)

SpecCatalog == Init /\ [][NextCatalog]_vars

\* SpecEdit: the first call creates the workout w1 at client time 1; then the
\* two devices of the user sync edits of w1 made at later client times, one
\* call at a time
NextEdit ==
    \/ AllIdle /\ Tick
    \/ \E d \in DevicesOf("u1") :
         \/ AllIdle /\ SyncStartWithin(d, IF workouts = {}
                                          THEN EditPayloads(d, {1})
                                          ELSE EditPayloads(d, 2..MaxEditTime),
                                       MaxEditCalls)
         \/ Step(d)

SpecEdit == Init /\ [][NextEdit]_vars

\* SpecOverlap: the first call creates the workout w1 at client time 1; then
\* the two devices of the user sync edits of w1 made at later client times,
\* in calls that may overlap
NextOverlap ==
    \/ Tick
    \/ \E d \in DevicesOf("u1") :
         \/ /\ workouts = {} => AllIdle
            /\ SyncStartWithin(d, IF workouts = {}
                                  THEN EditPayloads(d, {1})
                                  ELSE EditPayloads(d, 2..MaxEditTime),
                               MaxEditCalls)
         \/ Step(d)
         \/ MarkFailed(d)

SpecOverlap == Init /\ [][NextOverlap]_vars

\* SpecTenants: a device of each of two users syncs the workout w1, one
\* workout per payload, in calls that may overlap
TenantPayloads(d) == {p \in FlatPayloads[d] : Len(p) = 1}

NextTenants ==
    \/ Tick
    \/ \E d \in {"d1", "d3"} :
         \/ SyncStartWithin(d, TenantPayloads(d), MaxTenantCalls)
         \/ Step(d)
         \/ MarkFailed(d)

SpecTenants == Init /\ [][NextTenants]_vars

\* SpecMerges: the first call creates the workout w1 at client time 1; then
\* the two devices of the user sync edits of w1 made at later client times,
\* in calls that may overlap.  The workout has no exercise, or the exercise
\* e1 without a set or with the set s1.
MergePayloads(d, times) ==
    {<<[clientId |-> "w1", val |-> ValOf(d), updatedAt |-> t, exercises |-> exs]>> :
        t \in times,
        exs \in SeqsUpTo(
                  {x \in ExerciseSyncData({"e1"},
                            SeqsUpTo({r \in SetSyncData :
                                        r.clientId = "s1" /\ r.updatedAt = 1}, 1)) :
                     x.updatedAt = 1}, 1)}

NextMerges ==
    \/ Tick
    \/ \E d \in DevicesOf("u1") :
         \/ /\ workouts = {} => AllIdle
            /\ SyncStartWithin(d, IF workouts = {}
                                  THEN MergePayloads(d, {1})
                                  ELSE MergePayloads(d, 2..MaxEditTime),
                               MaxMergeCalls)
         \/ Step(d)
         \/ MarkFailed(d)

SpecMerges == Init /\ [][NextMerges]_vars

\* The session bookkeeping of the two devices of one user, whose calls
\* overlap: every await of updateDeviceInfo and updateSyncMetadata is a step.
NextSession ==
    \E d \in DevicesOf("u1") :
       \/ SessionStart(d)
       \/ DeviceSelect(d)
       \/ DeviceWrite(d)
       \/ MetadataSelect(d)
       \/ MetadataWrite(d)
       \/ Prefetch(d)
       \/ Feed(d)
       \/ Fault(d)

SpecSession == Init /\ [][NextSession]_vars

\* One device syncs, call after call; a call of recordExerciseUsage may
\* throw.
NextUsage ==
    \/ SyncStart("d1", FaultPayloads)
    \/ Step("d1")
    \/ CreateTxUsageFault("d1")

SpecUsage == Init /\ [][NextUsage]_vars

\* the variables of the sync engine
syncVars == <<now, nextId, workouts, workoutExercises, sets, exercises,
              syncConflictLog, syncMetadata, userDevices, userExerciseHistory,
              call, client, budget, audit, ev>>

\* A list endpoint hands out the cursor of a value and reads it back, cycle
\* after cycle.
InitCursor ==
    /\ InitSync
    /\ req = NoReq
    /\ joined = NoJoined
    /\ validation = NoValidation
    /\ NoPrograms
    /\ \E data \in CursorData :
         page = [original |-> data, data |-> data, cursor |-> <<>>,
                 stage |-> "data", cycles |-> 0]

Encode ==
    /\ page.stage = "data"
    /\ page.cycles < MaxCycles
    /\ page' = [page EXCEPT !.cursor = encodeCursor(page.data),
                            !.stage = "cursor"]
    /\ UNCHANGED <<syncVars, req, joined, validation, programVars>>

Decode ==
    /\ page.stage = "cursor"
    /\ LET decoded == decodeCursor(page.cursor)
       IN  page' = [page EXCEPT !.data = decoded,
                               !.cycles = @ + 1,
                               !.stage = IF decoded = NoCursor THEN "null"
                                         ELSE "data"]
    /\ UNCHANGED <<syncVars, req, joined, validation, programVars>>

NextCursor == Encode \/ Decode

SpecCursor == InitCursor /\ [][NextCursor]_vars

\* A request enters optionalAuthMiddleware.
InitAuth ==
    /\ InitSync
    /\ page = NoPage
    /\ joined = NoJoined
    /\ validation = NoValidation
    /\ NoPrograms
    /\ \E a \in Authorizations :
         req = [NoReq EXCEPT !.pc = "start", !.authorization = a]

\* the header is read: next() for a missing or non-Bearer header and for an
\* empty token, otherwise the token goes to the verifier
ReadAuthorization ==
    /\ req.pc = "start"
    /\ LET authorization == req.authorization
       IN  IF ~authorization.present \/ ~StartsWithBearer(authorization.value)
           THEN req' = [req EXCEPT !.pc = "done", !.nextCalls = @ + 1]
           ELSE LET token == SplitBearerSecond(authorization.value)
                IN  IF token = <<>>
                    THEN req' = [req EXCEPT !.pc = "done", !.nextCalls = @ + 1]
                    ELSE req' = [req EXCEPT !.pc = "verifying", !.token = token]
    /\ UNCHANGED <<syncVars, page, joined, validation, programVars>>

\* verifyIdToken resolves: req.user is the decoded token, then next()
VerifyResolves ==
    /\ req.pc = "verifying"
    /\ req' = [req EXCEPT !.pc = "done", !.verifierCalls = @ + 1,
                          !.verified = "ok", !.user = <<req.token>>,
                          !.nextCalls = @ + 1]
    /\ UNCHANGED <<syncVars, page, joined, validation, programVars>>

\* verifyIdToken rejects: a warning is logged, then next()
VerifyRejects ==
    /\ req.pc = "verifying"
    /\ req' = [req EXCEPT !.pc = "done", !.verifierCalls = @ + 1,
                          !.verified = "failed", !.nextCalls = @ + 1]
    /\ UNCHANGED <<syncVars, page, joined, validation, programVars>>

NextAuth == ReadAuthorization \/ VerifyResolves \/ VerifyRejects

SpecAuth == InitAuth /\ [][NextAuth]_vars

\* A change feed's query returns the joined rows of some workouts, in one
\* of the orders it may, and the rows are folded.
FeedIds(kind, n) == {kind \o ToString(i) : i \in 1..n}

UniqueIds(rows) == \A r1, r2 \in rows : r1.id = r2.id => r1 = r2

FeedWorkouts ==
    {ws \in SUBSET {[id |-> id, clientId |-> c, date |-> t] :
                      id \in FeedIds("w", MaxFeedWorkouts),
                      c \in {"", "cw"}, t \in 1..MaxFeedDate} :
       UniqueIds(ws)}

FeedExercises(ws) ==
    {es \in SUBSET {[id |-> id, workoutId |-> w.id, clientId |-> c] :
                      id \in FeedIds("e", MaxFeedExercises), w \in ws,
                      c \in {"", "ce"}} :
       UniqueIds(es)}

FeedSets(es) ==
    {ss \in SUBSET {[id |-> id, workoutExerciseId |-> e.id, clientId |-> c,
                     reps |-> 5] :
                      id \in FeedIds("s", MaxFeedSets), e \in es,
                      c \in {"", "cs"}} :
       UniqueIds(ss)}

InitFold ==
    /\ InitSync
    /\ page = NoPage
    /\ req = NoReq
    /\ validation = NoValidation
    /\ NoPrograms
    /\ \E ws \in FeedWorkouts : \E es \in FeedExercises(ws) :
         \E ss \in FeedSets(es) : \E rows \in OrderByDate(LeftJoin(ws, es, ss)) :
           joined = [rows |-> rows, result |-> <<>>, stage |-> "rows"]

TransformServerData ==
    /\ joined.stage = "rows"
    /\ joined' = [joined EXCEPT
                    !.result = transformServerDataToClientFormat(joined.rows),
                    !.stage = "folded"]
    /\ UNCHANGED <<syncVars, page, req, validation, programVars>>

NextFold == TransformServerData

SpecFold == InitFold /\ [][NextFold]_vars

\* A payload of some workouts reaches validateSyncPayload.
Copies(x, n) == [i \in 1..n |-> x]

ValidatedSets ==
    {[clientId |-> "s", weight |-> NumberValue(135), reps |-> NumberValue(8)],
     [clientId |-> "s", weight |-> NumberValue(135),
      reps |-> NumberValue(MAX_REPS + 1)],
     [clientId |-> "", weight |-> NotANumber, reps |-> NotANumber]}

ValidatedSetLists ==
    {Copies(set, n) : set \in ValidatedSets, n \in 0..MaxValidatedSets}

ValidatedExercises ==
    {[clientId |-> "e", exerciseName |-> <<97>>, sets |-> ss] :
        ss \in ValidatedSetLists}
    \cup {[clientId |-> "", exerciseName |-> <<>>, sets |-> ss] :
            ss \in ValidatedSetLists}

ValidatedWorkouts ==
    {[clientId |-> c, name |-> <<97>>, exercises |-> Copies(ex, n)] :
        c \in {"", "w"}, ex \in ValidatedExercises,
        n \in 0..MaxValidatedExercises}

ValidatedPayloads ==
    {[deviceId |-> dev, workouts |-> ws] :
        dev \in {<<>>, <<97>>},
        ws \in SeqsUpTo(ValidatedWorkouts, MaxValidatedWorkouts)}

InitValidate ==
    /\ InitSync
    /\ page = NoPage
    /\ req = NoReq
    /\ joined = NoJoined
    /\ NoPrograms
    /\ \E payload \in ValidatedPayloads :
         validation = [NoValidation EXCEPT !.payload = payload,
                                           !.stage = "received"]

Validate ==
    /\ validation.stage = "received"
    /\ validation' = [validation EXCEPT
                        !.result = validateSyncPayload(validation.payload),
                        !.stage = "validated"]
    /\ UNCHANGED <<syncVars, page, req, joined, programVars>>

NextValidate == Validate

SpecValidate == InitValidate /\ [][NextValidate]_vars

\* A user owns one program as createProgram stored it; two sessions of the
\* user call advanceDay, resetProgress and updateProgram.  Of a program's row
\* the fields of its rotation are kept.
DaysPerWeekValues ==
    {n \in MIN_DAYS_PER_WEEK..MAX_DAYS_PER_WEEK : n <= MaxDaysPerWeek}

InitProgram ==
    /\ InitSync
    /\ page = NoPage /\ req = NoReq /\ joined = NoJoined
    /\ validation = NoValidation
    /\ programCalls = NoProgramCalls
    /\ \E daysPerWeek \in DaysPerWeekValues :
         /\ workoutPrograms = {[id |-> "p1", userId |-> "u1",
                                daysPerWeek |-> daysPerWeek,
                                currentDayIndex |-> 0, timesCompleted |-> 0]}
         /\ \E days \in SUBSET (0..(daysPerWeek - 1)) :
              programWeeks = {[programId |-> "p1", dayNumber |-> day] :
                                day \in days}

\* the route calls advanceDay, resetProgress or updateProgram; a validated
\* update carries a daysPerWeek (0: none)
ProgramCallStart(s) ==
    /\ programCalls.of[s].pc = "idle"
    /\ programCalls.started < MaxProgramCalls
    /\ \E op \in {"advanceDay", "resetProgress", "updateProgram"} :
         \E daysPerWeek \in (IF op = "updateProgram"
                             THEN DaysPerWeekValues \cup {0} ELSE {0}) :
           programCalls' =
             [started |-> programCalls.started + 1,
              of |-> [programCalls.of EXCEPT ![s] =
                        [IdleProgramCall EXCEPT
                           !.pc = "verify", !.op = op, !.programId = "p1",
                           !.userId = "u1",
                           !.updates = [daysPerWeek |-> daysPerWeek]]]]
    /\ UNCHANGED <<syncVars, page, req, joined, validation, workoutPrograms,
                   programWeeks>>

\* existing = await verifyProgramOwnership(programId, userId)
VerifyProgramOwnership(s) ==
    LET c == programCalls.of[s]
        result == {p \in workoutPrograms :
                     p.id = c.programId /\ p.userId = c.userId}
    IN  /\ c.pc = "verify"
        /\ IF result = {}
           THEN programCalls' = [programCalls EXCEPT !.of[s] = IdleProgramCall]
           ELSE programCalls' =
                  [programCalls EXCEPT
                     !.of[s].existing = CHOOSE p \in result : TRUE,
                     !.of[s].pc = IF c.op = "updateProgram" THEN "orphans"
                                  ELSE "write"]
        /\ UNCHANGED <<syncVars, page, req, joined, validation, workoutPrograms,
                       programWeeks>>

\* updateProgram: a smaller daysPerWeek is refused while a workout of the
\* program sits on a day it would drop
OrphanedWorkouts(s) ==
    LET c == programCalls.of[s]
        orphanedWorkouts ==
            {w \in programWeeks : /\ w.programId = c.programId
                                  /\ w.dayNumber >= c.updates.daysPerWeek}
    IN  /\ c.pc = "orphans"
        /\ IF /\ c.updates.daysPerWeek # 0
              /\ c.updates.daysPerWeek < c.existing.daysPerWeek
              /\ orphanedWorkouts # {}
           THEN programCalls' = [programCalls EXCEPT !.of[s] = IdleProgramCall]
           ELSE programCalls' = [programCalls EXCEPT !.of[s].pc = "write"]
        /\ UNCHANGED <<syncVars, page, req, joined, validation, workoutPrograms,
                       programWeeks>>

\* update(workoutPrograms).set(updateData).where(id = programId)
SetWhereId(rows, programId, updateData(_)) ==
    {IF p.id = programId THEN updateData(p) ELSE p : p \in rows}

\* advanceDay's update
AdvanceDay(s) ==
    LET c == programCalls.of[s]
        existing == c.existing
        nextDayIndex == (existing.currentDayIndex + 1) % existing.daysPerWeek
        cycleCompleted == nextDayIndex = 0
        updateData(p) ==
            [p EXCEPT !.currentDayIndex = nextDayIndex,
                      !.timesCompleted = IF cycleCompleted
                                         THEN existing.timesCompleted + 1
                                         ELSE @]
    IN  /\ c.pc = "write" /\ c.op = "advanceDay"
        /\ workoutPrograms' = SetWhereId(workoutPrograms, c.programId, updateData)
        /\ programCalls' = [programCalls EXCEPT !.of[s] = IdleProgramCall]
        /\ UNCHANGED <<syncVars, page, req, joined, validation, programWeeks>>

\* updateProgram's update
UpdateProgram(s) ==
    LET c == programCalls.of[s]
        existing == c.existing
        updates == c.updates
        updateData(p) ==
            IF updates.daysPerWeek = 0 THEN p
            ELSE [p EXCEPT !.daysPerWeek = updates.daysPerWeek,
                           !.currentDayIndex =
                              IF existing.currentDayIndex >= updates.daysPerWeek
                              THEN 0 ELSE @]
    IN  /\ c.pc = "write" /\ c.op = "updateProgram"
        /\ workoutPrograms' = SetWhereId(workoutPrograms, c.programId, updateData)
        /\ programCalls' = [programCalls EXCEPT !.of[s] = IdleProgramCall]
        /\ UNCHANGED <<syncVars, page, req, joined, validation, programWeeks>>

\* resetProgress's update
ResetProgress(s) ==
    LET c == programCalls.of[s]
        updateData(p) == [p EXCEPT !.currentDayIndex = 0, !.timesCompleted = 0]
    IN  /\ c.pc = "write" /\ c.op = "resetProgress"
        /\ workoutPrograms' = SetWhereId(workoutPrograms, c.programId, updateData)
        /\ programCalls' = [programCalls EXCEPT !.of[s] = IdleProgramCall]
        /\ UNCHANGED <<syncVars, page, req, joined, validation, programWeeks>>

NextProgram ==
    \E s \in ProgramSessions :
       \/ ProgramCallStart(s)
       \/ VerifyProgramOwnership(s)
       \/ OrphanedWorkouts(s)
       \/ AdvanceDay(s)
       \/ UpdateProgram(s)
       \/ ResetProgress(s)

SpecProgram == InitProgram /\ [][NextProgram]_vars

\* the same calls, one after the other: a call starts when no other is in
\* progress
NextProgramInTurn ==
    \E s \in ProgramSessions :
       \/ /\ \A o \in ProgramSessions : programCalls.of[o].pc = "idle"
          /\ ProgramCallStart(s)
       \/ VerifyProgramOwnership(s)
       \/ OrphanedWorkouts(s)
       \/ AdvanceDay(s)
       \/ UpdateProgram(s)
       \/ ResetProgress(s)

SpecProgramInTurn == InitProgram /\ [][NextProgramInTurn]_vars

\* SpecRoute: the requests of one device pass through the route's validation
NextRoute ==
    \/ Tick
    \/ Submit("d1", RoutePayloads)
    \/ Step("d1")
    \/ MarkFailed("d1")

SpecRoute == Init /\ [][NextRoute]_vars

(***************************************************************************)
(* Properties.  ev describes the workout step just taken: ev.pre is the    *)
(* stored data before it, the tables are the stored data after it.         *)
(***************************************************************************)
RowById(rows, id) == CHOOSE r \in rows : r.id = id

IsPrefix(s, t) == Len(s) <= Len(t) /\ SubSeq(t, 1, Len(s)) = s

\* C1: a workout submitted for a client id that has a server row, with client
\* timestamp T1 against the row's stored updatedAt T0: if T1 > T0 the stored
\* workout-level fields become the payload's and no conflict is appended; if
\* T1 <= T0 the row stays as it was and exactly one server_wins conflict for
\* the workout is appended to the log and returned in the response.
StoredTimestampDecidesWorkout ==
    ev.op \in {"merge", "conflict"} =>
      LET before == RowById(ev.pre.workouts, ev.workoutId)
          after == RowById(workouts, ev.workoutId)
          returned == call[ev.d].conflicts
      IN  IF ev.wd.updatedAt > before.updatedAt
          THEN /\ after.val = ev.wd.val
               /\ after.clientUpdatedAt = ev.wd.updatedAt
               /\ syncConflictLog = ev.pre.log
          ELSE /\ after = before
               /\ Len(syncConflictLog) = Len(ev.pre.log) + 1
               /\ IsPrefix(ev.pre.log, syncConflictLog)
               /\ syncConflictLog[Len(syncConflictLog)].entityType = "workout"
               /\ syncConflictLog[Len(syncConflictLog)].entityId = ev.workoutId
               /\ syncConflictLog[Len(syncConflictLog)].resolution = "server_wins"
               /\ Len(returned) > 0
               /\ returned[Len(returned)].entityId = ev.workoutId
               /\ returned[Len(returned)].resolution = "server_wins"

\* a replay of the device's previous payload has been answered
ReplayAnswered(d) == audit[d].replay /\ call[d].pc = "idle"

\* C2: the replay of an identical payload, sent with the first response's
\* lastServerSync as lastSyncTimestamp, creates no workout, exercise-instance,
\* set or catalog row, and its response reports stats.uploaded = 0.
ReplayCreatesAndUploadsNothing ==
    \A d \in Devices :
      /\ audit[d].replay => audit[d].created = 0
      /\ ReplayAnswered(d) => client[d].response.stats.uploaded = 0

\* C3: the replay of an unchanged payload leaves every stored workout,
\* exercise-instance and set row with the field values and the server-side
\* updatedAt it had before the replay.
ReplayKeepsStoredRows ==
    \A d \in Devices :
      audit[d].replay =>
        /\ workouts = audit[d].snap.workouts
        /\ workoutExercises = audit[d].snap.wex
        /\ sets = audit[d].snap.sets

\* the stored exercise instances of workout workoutId with client id c, and
\* the stored sets of exercise instance id with client id c
ExercisesOf(tb, workoutId, c) ==
    {x \in tb.wex : x.workoutId = workoutId /\ x.clientId = c}

SetsOf(tb, id, c) == {s \in tb.sets : s.workoutExerciseId = id /\ s.clientId = c}

\* the stored row carries what the incoming entity carries
HoldsExercise(x, ed) ==
    x.exerciseName = ed.exerciseName /\ x.clientUpdatedAt = ed.updatedAt

HoldsSet(s, sd) == s.reps = sd.reps /\ s.clientUpdatedAt = sd.updatedAt

\* C4: when the server's copy of the workout wins, an incoming exercise that
\* is new is inserted with its sets, an incoming exercise that is strictly
\* newer than its stored counterpart is persisted, and so are the new and the
\* strictly newer sets of a stored exercise.
ServerWinsStillReconcilesExercises ==
    ev.op = "conflict" =>
      \A i \in 1..Len(ev.wd.exercises) :
        LET ed == ev.wd.exercises[i]
            stored == ExercisesOf(ev.pre, ev.workoutId, ed.clientId)
        IN  /\ stored = {} =>
                 \E x \in ExercisesOf(Stored, ev.workoutId, ed.clientId) :
                    HoldsExercise(x, ed)
            /\ \A x \in stored :
                 /\ ed.updatedAt > x.updatedAt =>
                      HoldsExercise(RowById(workoutExercises, x.id), ed)
                 /\ \A k \in 1..Len(ed.sets) :
                      LET sd == ed.sets[k]
                          storedSets == SetsOf(ev.pre, x.id, sd.clientId)
                      IN  /\ storedSets = {} =>
                               \E s \in SetsOf(Stored, x.id, sd.clientId) :
                                  HoldsSet(s, sd)
                          /\ \A s \in storedSets :
                               sd.updatedAt > s.updatedAt =>
                                 HoldsSet(RowById(sets, s.id), sd)

\* the row with x's id is stored, holds what ed carries and was written now
ExerciseOverwritten(x, ed) ==
    \E y \in workoutExercises :
       y.id = x.id /\ HoldsExercise(y, ed) /\ y.updatedAt = now

SetOverwritten(s, sd) ==
    \E r \in sets : r.id = s.id /\ HoldsSet(r, sd) /\ r.updatedAt = now

\* C5: in one workout merge every stored exercise instance and every stored
\* set that an incoming entity matches by client id is overwritten iff the
\* incoming entity's client timestamp is strictly greater than the stored
\* row's server timestamp; otherwise the row stays as stored.
StrictRulePerNestedEntity ==
    ev.op = "merge" =>
      \A i \in 1..Len(ev.wd.exercises) :
        LET ed == ev.wd.exercises[i]
        IN  \A x \in ExercisesOf(ev.pre, ev.workoutId, ed.clientId) :
              /\ IF ed.updatedAt > x.updatedAt
                 THEN ExerciseOverwritten(x, ed)
                 ELSE x \in workoutExercises
              /\ \A k \in 1..Len(ed.sets) :
                   \A s \in SetsOf(ev.pre, x.id, ed.sets[k].clientId) :
                     IF ed.sets[k].updatedAt > s.updatedAt
                     THEN SetOverwritten(s, ed.sets[k])
                     ELSE s \in sets

\* the stored sets of exercise instance id
AllSetsOf(tb, id) == {s \in tb.sets : s.workoutExerciseId = id}

\* C6: a merge of a workout that carries two exercises stored on the server,
\* one with a client timestamp newer than its stored counterpart and one with
\* an older one, changes exactly one exercise-instance row, appends exactly
\* one conflict record, which names the losing exercise, and leaves the rows
\* of the losing exercise's sets as they were.
OneExerciseWinsOneConflictLogged ==
    (ev.op = "merge" /\ Len(ev.wd.exercises) = 2) =>
      \A i \in 1..2 :
        LET winner == ev.wd.exercises[i]
            loser == ev.wd.exercises[3 - i]
        IN  \A x \in ExercisesOf(ev.pre, ev.workoutId, winner.clientId) :
              \A y \in ExercisesOf(ev.pre, ev.workoutId, loser.clientId) :
                (/\ winner.clientId # loser.clientId
                 /\ winner.updatedAt > x.updatedAt
                 /\ loser.updatedAt < y.updatedAt)
                => /\ Cardinality({z \in ev.pre.wex : z \notin workoutExercises}) = 1
                   /\ Len(syncConflictLog) = Len(ev.pre.log) + 1
                   /\ IsPrefix(ev.pre.log, syncConflictLog)
                   /\ syncConflictLog[Len(syncConflictLog)].entityId = y.id
                   /\ AllSetsOf(Stored, y.id) = AllSetsOf(ev.pre, y.id)

\* C7: a stored exercise instance whose client id the incoming workout does
\* not list is deleted, with all its sets, only when the workout's client
\* timestamp is strictly greater than the exercise's stored updatedAt; when
\* the timestamp is equal or older the exercise and its sets stay as stored.
AbsentExerciseDeletedOnlyWhenOlder ==
    ev.op \in {"merge", "conflict"} =>
      \A x \in {x \in ev.pre.wex : /\ x.workoutId = ev.workoutId
                                   /\ x.clientId \notin ClientIdsOf(ev.wd.exercises)} :
        /\ (\A y \in workoutExercises : y.id # x.id)
             => ev.wd.updatedAt > x.updatedAt /\ AllSetsOf(Stored, x.id) = {}
        /\ ev.wd.updatedAt <= x.updatedAt
             => x \in workoutExercises /\ AllSetsOf(Stored, x.id) = AllSetsOf(ev.pre, x.id)

\* an absent exercise met a workout timestamp that is not newer, in a merge
AbsentExerciseSurvivesMerge ==
    /\ ev.op = "merge"
    /\ \E x \in ev.pre.wex :
         /\ x.workoutId = ev.workoutId
         /\ x.clientId \notin ClientIdsOf(ev.wd.exercises)
         /\ ev.wd.updatedAt <= x.updatedAt
         /\ x \in workoutExercises

\* the deletion threshold of an incoming exercise
DeletionThreshold(ed) ==
    IF Len(ed.sets) = 0 THEN ed.updatedAt
    ELSE CHOOSE t \in {ed.sets[k].updatedAt : k \in 1..Len(ed.sets)} :
           \A k \in 1..Len(ed.sets) : ed.sets[k].updatedAt <= t

\* C8: a stored set of a retained exercise whose client id the incoming set
\* list does not hold is deleted iff the threshold, the newest client
\* timestamp of the incoming sets or the exercise's own client timestamp when
\* it sends no set, is strictly greater than the set's stored updatedAt.
MissingSetDeletedIffThresholdNewer ==
    ev.op = "merge" =>
      \A i \in 1..Len(ev.wd.exercises) :
        LET ed == ev.wd.exercises[i]
        IN  \A x \in ExercisesOf(ev.pre, ev.workoutId, ed.clientId) :
              \A s \in {s \in AllSetsOf(ev.pre, x.id) :
                          s.clientId \notin ClientIdsOf(ed.sets)} :
                (\A r \in sets : r.id # s.id) <=> DeletionThreshold(ed) > s.updatedAt

\* C9: at most one workout row per (user id, client id).
OneWorkoutPerUserAndClientId ==
    \A w1 \in workouts : \A w2 \in workouts :
      (w1.userId = w2.userId /\ w1.clientId = w2.clientId) => w1.id = w2.id

\* C10: at most one exercise-instance row per (workout id, client id) and at
\* most one set row per (exercise-instance id, client id).
OneNestedRowPerParentAndClientId ==
    /\ \A x1 \in workoutExercises : \A x2 \in workoutExercises :
         (x1.workoutId = x2.workoutId /\ x1.clientId = x2.clientId) => x1.id = x2.id
    /\ \A s1 \in sets : \A s2 \in sets :
         (s1.workoutExerciseId = s2.workoutExerciseId /\ s1.clientId = s2.clientId)
           => s1.id = s2.id

\* C11: the mutations of one workout's subtree commit together or not at
\* all: after a transaction that threw, the workout, exercise-instance and
\* set tables are what they were before it; after a create, the workout row,
\* one exercise instance per incoming exercise and every set of each are
\* stored; after a merge, the workout's fields are the payload's and every
\* incoming exercise has a row; and while a create is under way none of its
\* rows is visible.
WorkoutSubtreeCommitsWhole ==
    /\ ev.op = "abort" =>
         /\ workouts = ev.pre.workouts
         /\ workoutExercises = ev.pre.wex
         /\ sets = ev.pre.sets
    /\ ev.op = "create" =>
         /\ \E w \in workouts : w.id = ev.workoutId /\ w.val = ev.wd.val
         /\ \A i \in 1..Len(ev.wd.exercises) :
              \E x \in workoutExercises :
                 /\ x.workoutId = ev.workoutId
                 /\ x.orderIndex = i - 1
                 /\ HoldsExercise(x, ev.wd.exercises[i])
                 /\ Cardinality(AllSetsOf(Stored, x.id)) = Len(ev.wd.exercises[i].sets)
    /\ ev.op = "merge" =>
         /\ RowById(workouts, ev.workoutId).val = ev.wd.val
         /\ \A i \in 1..Len(ev.wd.exercises) :
              ExercisesOf(Stored, ev.workoutId, ev.wd.exercises[i].clientId) # {}
    /\ \A d \in Devices :
         (call[d].pc \in {"resolve", "insert", "tx"} /\ ~HasExisting(d)) =>
            /\ \A w \in workouts : w.id # call[d].workoutId
            /\ \A x \in workoutExercises : x.workoutId # call[d].workoutId

\* C11 witness: the transaction of a workout with exercises threw while
\* workouts were stored
TransactionOfNestedWorkoutThrew ==
    ev.op = "abort" /\ Len(ev.wd.exercises) > 0 /\ workouts # {}

\* the stored copy of the i-th workout of the payload of d's call carries
\* what the payload carries
StoredAsSent(d, i) ==
    LET wd == call[d].payload[i]
    IN  \E w \in workouts :
          /\ w.userId = UserOf(d) /\ w.clientId = wd.clientId
          /\ w.val = wd.val /\ w.clientUpdatedAt = wd.updatedAt
          /\ \A k \in 1..Len(wd.exercises) :
               \E x \in ExercisesOf(Stored, w.id, wd.exercises[k].clientId) :
                  Cardinality(AllSetsOf(Stored, x.id)) >= Len(wd.exercises[k].sets)

\* C12: when the processing of the k-th workout of a payload has failed, the
\* workouts before it that the call uploaded are stored as sent, no row of
\* the k-th workout is stored (no workout row carries its client id and every
\* exercise-instance and set row belongs to a stored workout; a workout
\* that was stored before is the row that was pre-fetched), and the call ends
\* with an error for the caller and the same stored rows.
FailedWorkoutLeavesEarlierOnes ==
    /\ \A d \in Devices :
         (/\ call[d].pc = "failing"
          /\ call[d].failedAt \in {"loop", "resolve", "insert", "tx"}
          /\ call[d].idx <= Len(call[d].payload)) =>
            /\ call[d].stats.uploaded = call[d].idx - 1 =>
                  \A i \in 1..(call[d].idx - 1) : StoredAsSent(d, i)
            /\ IF HasExisting(d)
               THEN ExistingWorkout(d) \in workouts
               ELSE /\ \A w \in workouts :
                         ~(w.userId = UserOf(d) /\ w.clientId = CurrentWorkout(d).clientId)
                    /\ \A x \in workoutExercises :
                         \E w \in workouts : w.id = x.workoutId
                    /\ \A x \in sets :
                         \E y \in workoutExercises : y.id = x.workoutExerciseId
    /\ ev.op \in {"failed", "thrown"} =>
         /\ call[ev.d].pc = "idle"
         /\ ~client[ev.d].response.success
         /\ client[ev.d].response.error # ""
         /\ Stored = ev.pre

\* C12 witness: the transaction of the second workout of a payload threw
\* after the first workout was uploaded
SecondWorkoutFailedAfterUpload ==
    \E d \in Devices :
      /\ call[d].pc = "failing" /\ call[d].idx = 2 /\ call[d].stats.uploaded = 1
      /\ ev.op = "abort"

\* C13: every call ends after its terminal status was recorded: when no call
\* of a user is in progress, the user's sync metadata shows 'completed' or
\* 'failed', never 'syncing', and a call that ended with an error left
\* 'failed'.
MetadataNeverLeftSyncing ==
    /\ \A r \in syncMetadata :
         (\A d \in DevicesOf(r.userId) : call[d].pc = "idle") =>
            r.currentSyncStatus \in {"completed", "failed"}
    /\ ev.op \in {"failed", "thrown"} =>
         \E r \in syncMetadata :
            r.userId = UserOf(ev.d) /\ r.currentSyncStatus = "failed"

\* C14: when a call has ended with an error for its caller, the user's sync
\* metadata already shows 'failed' with the structured error of that
\* failure.
ErrorSeenOnlyAfterFailedRecorded ==
    ev.op \in {"failed", "thrown"} =>
      \E r \in syncMetadata :
         /\ r.userId = UserOf(ev.d)
         /\ r.currentSyncStatus = "failed"
         /\ r.lastSyncError.code = "SYNC_ERROR"
         /\ r.lastSyncError.message # ""

\* C15: a sync returns, in serverData, every workout that another device of
\* the same user committed before the sync started and that no earlier
\* response of the device carried.
CommittedChangeReachesOtherDevice ==
    \A d \in Devices :
      call[d].pc = "completing" => audit[d].due \subseteq call[d].serverWorkouts

\* C16: when concurrent syncs reference the same new exercise name, the
\* catalog gets one row for it and no sync fails: no call ends on the
\* catalog's uniqueness violation, and every exercise instance that a sync
\* stored references a catalog row.
RaceOnNewExerciseNameCompletesBoth ==
    /\ \A e1, e2 \in exercises : e1.name = e2.name => e1 = e2
    /\ \A x \in workoutExercises : \E e \in exercises : e.id = x.exerciseId
    /\ \A d \in Devices :
         ~(call[d].pc = "failing" /\ call[d].error = "unique")
    /\ ev.op = "failed" => client[ev.d].response.error # "unique"

\* C17: a workout creation that failed with a uniqueness or a foreign-key
\* violation is retried, so that such an error reaches syncUserData only
\* from a creation whose retries are used up; and nothing but a creation is
\* retried.
ConstraintViolationOfCreateIsRetried ==
    \A d \in Devices :
      /\ (/\ call[d].pc = "failing"
          /\ call[d].failedAt \in {"insert", "tx"}
          /\ call[d].error \in {"unique", "foreign key"}
          /\ ~HasExisting(d)) => call[d].retryCount = MAX_RETRIES
      /\ call[d].retryCount > 0 => ~HasExisting(d)

OwnerOf(x) == RowById(workouts, x.workoutId).userId

\* C18: the catalog holds at most one row per exercise name, and exercise
\* instances that two different users synced under the same name reference
\* the same catalog row.
SameNameSameCatalogRow ==
    /\ \A e1, e2 \in exercises : e1.name = e2.name => e1.id = e2.id
    /\ \A x, y \in workoutExercises :
         (x.exerciseName = y.exerciseName /\ OwnerOf(x) # OwnerOf(y)) =>
            x.exerciseId = y.exerciseId

\* the limits and required fields that the specification declares
DeclaredViolation(body) ==
    \/ body.workoutCount > MAX_WORKOUTS_PER_SYNC
    \/ body.exerciseCount > MAX_EXERCISES_PER_WORKOUT
    \/ body.setCount > MAX_SETS_PER_EXERCISE
    \/ ~body.clientIds
    \/ ~body.timestamps
    \/ body.weight > MAX_WEIGHT_LBS
    \/ body.reps > MAX_REPS

\* C19: a payload that is past a declared limit or lacks a required field
\* (a client id, a timestamp) is rejected as a whole: no call of syncUserData
\* is made for it, the caller gets the validation error, and the stored
\* rows are what they were.
ViolatingPayloadRejectedWhole ==
    \A d \in Devices :
      DeclaredViolation(client[d].body) =>
        /\ call[d].pc = "idle"
        /\ client[d].response.error = "Invalid sync payload"
        /\ (ev.op = "rejected" /\ ev.d = d) => Stored = ev.pre

NamesIn(pl) ==
    UNION {{pl[i].exercises[k].exerciseName : k \in 1..Len(pl[i].exercises)} :
             i \in 1..Len(pl)}

\* C20: a sync of unseen workouts against an account without stored data
\* has created, when its workouts are processed, one workout row per payload
\* workout, under it one exercise instance per incoming exercise with one
\* set per incoming set, and one catalog row per exercise name of the payload
\* that the catalog did not hold; its stats count every payload workout as
\* uploaded and no conflict.
EmptyAccountSyncCreatesEachRowOnce ==
    \A d \in Devices :
      (call[d].pc = "completing" /\ audit[d].fresh) =>
        LET pl == call[d].payload
            mine == {w \in workouts : w.userId = UserOf(d)}
        IN  /\ Cardinality(mine) = Len(pl)
            /\ \A i \in 1..Len(pl) :
                 \E w \in mine :
                    /\ w.clientId = pl[i].clientId
                    /\ Cardinality({x \in workoutExercises : x.workoutId = w.id})
                         = Len(pl[i].exercises)
                    /\ \A k \in 1..Len(pl[i].exercises) :
                         \E x \in workoutExercises :
                            /\ x.workoutId = w.id /\ x.orderIndex = k - 1
                            /\ HoldsExercise(x, pl[i].exercises[k])
                            /\ Cardinality(AllSetsOf(Stored, x.id))
                                 = Len(pl[i].exercises[k].sets)
            /\ Cardinality({e \in exercises : e.name \notin audit[d].names})
                 = Cardinality(NamesIn(pl) \ audit[d].names)
            /\ call[d].stats.uploaded = Len(pl)
            /\ call[d].stats.conflicts = 0
            /\ call[d].conflicts = <<>>

\* C20 witness: a sync of two workouts against an empty account is processed
\* while the catalog already held a name
TwoWorkoutsSyncedToEmptyAccount ==
    \E d \in Devices :
      /\ call[d].pc = "completing" /\ audit[d].fresh
      /\ Len(call[d].payload) = 2
      /\ NamesIn(call[d].payload) # {}
      /\ audit[d].names # {}

\* the workout that the last completed sync of device d carried
LastSent(d) == client[d].payload[1]

\* C21: when the two devices of a user have each synced an edit of the same
\* stored workout, one after the other, the workout-level fields stored are
\* those of the edit with the strictly newer client timestamp, in either
\* order of the two syncs.
NewerEditStoredInEitherOrder ==
    (/\ AllIdle
     /\ budget.calls = MaxEditCalls
     /\ \A d \in DevicesOf("u1") : client[d].synced /\ LastSent(d).updatedAt > 1
     /\ LastSent("d1").updatedAt # LastSent("d2").updatedAt) =>
       LET newer == IF LastSent("d1").updatedAt > LastSent("d2").updatedAt
                    THEN LastSent("d1") ELSE LastSent("d2")
       IN  \A w \in workouts :
              w.val = newer.val /\ w.clientUpdatedAt = newer.updatedAt

\* the records of the conflict log are those of losing client writes
OnlyLosingWritesLogged ==
    \A i \in 1..Len(syncConflictLog) :
       /\ syncConflictLog[i].resolution = "server_wins"
       /\ syncConflictLog[i].clientTimestamp <= syncConflictLog[i].serverTimestamp

\* C22: the conflict log is append-only and holds only losing client writes:
\* every record has resolution server_wins and a client timestamp not greater
\* than its server timestamp, no step modifies or removes a record, and a
\* step that appends one is a server-wins outcome, never a create or a merge.
ConflictLogAppendOnly ==
    /\ []OnlyLosingWritesLogged
    /\ [][/\ IsPrefix(syncConflictLog, syncConflictLog')
          /\ syncConflictLog' # syncConflictLog =>
                /\ Len(syncConflictLog') = Len(syncConflictLog) + 1
                /\ ev'.op = "conflict"
                /\ workouts' = workouts]_vars

\* C22 witness: a second losing write has been logged behind the first
SecondConflictLogged ==
    /\ Len(syncConflictLog) >= 2
    /\ ev.op = "conflict"
    /\ ev.pre.log # <<>>

\* the counters of the user's sync-metadata row; zero while there is no row
CountersOf(rows, userId) ==
    LET m == MatchingMetadata(rows, userId)
    IN  IF m = {}
        THEN [totalSyncs |-> 0, successfulSyncs |-> 0, failedSyncs |-> 0]
        ELSE LET r == CHOOSE q \in m : TRUE
             IN  [totalSyncs |-> r.totalSyncs,
                  successfulSyncs |-> r.successfulSyncs,
                  failedSyncs |-> r.failedSyncs]

\* C23: a call that ends 'completed' raises the user's totalSyncs and
\* successfulSyncs by exactly one and leaves failedSyncs unchanged; a call
\* that ends 'failed' raises totalSyncs and failedSyncs by exactly one and
\* leaves successfulSyncs unchanged; marking 'syncing' changes no counter
\* (stated for a user with a single metadata row).
EachCallCountedOnce ==
    [][\A d \in Devices :
         Cardinality(MatchingMetadata(syncMetadata', UserOf(d))) <= 1 =>
           LET before == CountersOf(syncMetadata, UserOf(d))
               after == CountersOf(syncMetadata', UserOf(d))
           IN  /\ (call[d].pc \in {"completing", "completingWrite"}
                     /\ call'[d].pc = "idle") =>
                    /\ after.totalSyncs = before.totalSyncs + 1
                    /\ after.successfulSyncs = before.successfulSyncs + 1
                    /\ after.failedSyncs = before.failedSyncs
               /\ (call[d].pc \in {"failing", "failingWrite"}
                     /\ call'[d].pc = "idle" /\ ev'.op = "failed") =>
                    /\ after.totalSyncs = before.totalSyncs + 1
                    /\ after.failedSyncs = before.failedSyncs + 1
                    /\ after.successfulSyncs = before.successfulSyncs
               /\ (call[d].pc \in {"syncing", "syncingWrite"}
                     /\ call'[d].pc = "prefetch") =>
                    after = before]_vars

\* C24: in every reachable state there is at most one sync-metadata row per
\* user, also when two devices of the user run their first syncs
\* concurrently.
OneMetadataRowPerUser ==
    \A r, q \in syncMetadata : r.userId = q.userId => r = q

\* C25: in every reachable state there is at most one device row per (user
\* id, device id), also when two sync calls carrying the same new device id
\* overlap.
OneDeviceRowPerUserAndDevice ==
    \A r, q \in userDevices :
       (r.userId = q.userId /\ r.deviceId = q.deviceId) => r = q

\* C26: no error raised inside a sync call is silently discarded: a call in
\* which a step threw is retried or ends 'failed' with the error thrown to
\* the caller; it does not end 'completed' with a successful response.
NoFailureFollowedByCompleted ==
    [][\A d \in Devices :
         (call[d].pc = "completing" /\ call'[d].pc = "idle"
            /\ client'[d].response.success) =>
           call[d].failedAt = ""]_vars

\* C27: for every cursor value with a non-empty id, a sortValue that is a
\* string, a number or null, and a valid sortField,
\* decodeCursor(encodeCursor(d)) equals d, also after further encode/decode
\* cycles.
CursorRoundTrip ==
    page.cycles > 0 => page.data = page.original

\* the text that follows the scheme prefix of a Bearer header
SuppliedToken(a) == SubSeq(a.value, 2, Len(a.value))

\* C28: optionalAuthMiddleware calls next() exactly once for every request
\* and never sends a response; req.user is set iff a Bearer token was
\* supplied and its verification succeeded, and is then the decoded token;
\* with a missing, non-Bearer or empty token the verifier is not called.
OptionalAuthAlwaysContinues ==
    LET a == req.authorization
        bearer == a.present /\ StartsWithBearer(a.value)
    IN  /\ req.responses = 0
        /\ req.nextCalls <= 1
        /\ req.verifierCalls <= 1
        /\ req.pc = "done" =>
             /\ req.nextCalls = 1
             /\ req.user # <<>> <=>
                  (bearer /\ SuppliedToken(a) # <<>> /\ req.verifierCalls = 1
                     /\ req.verified = "ok")
             /\ req.user # <<>> => req.user = <<req.token>>
             /\ (req.verifierCalls = 1 /\ "Bearer " \notin
                    {SuppliedToken(a)[i] : i \in 1..Len(SuppliedToken(a))}) =>
                  req.token = SuppliedToken(a)
        /\ (~bearer \/ SuppliedToken(a) = <<>>) => req.verifierCalls = 0

\* C28 witness: a request with a Bearer token that the verifier accepted has
\* passed the middleware
BearerRequestPassed ==
    /\ req.pc = "done"
    /\ req.user # <<>>
    /\ req.authorization.value = <<"Bearer ", "t1">>

\* C29: the creation of one workout takes the initial attempt and at most
\* MAX_RETRIES retries; a retry follows a rolled-back transaction, draws a
\* fresh workout id and resolves the catalog ids again from the first
\* exercise; when the retries are used up the error is thrown on and
\* reaches the caller.
CreationAttemptsBounded ==
    /\ [](\A d \in Devices : call[d].retryCount <= MAX_RETRIES)
    /\ [][\A d \in Devices :
           /\ call'[d].retryCount > call[d].retryCount =>
                /\ call'[d].retryCount = call[d].retryCount + 1
                /\ call[d].pc = "tx" /\ call'[d].pc = "loop"
                /\ call'[d].idx = call[d].idx
                /\ workouts' = workouts /\ workoutExercises' = workoutExercises
                /\ sets' = sets
           /\ (call[d].pc = "loop" /\ call[d].retryCount > 0
                 /\ call'[d].pc \in {"resolve", "insert", "tx"}) =>
                /\ call'[d].workoutId # call[d].workoutId
                /\ \A w \in workouts : w.id # call'[d].workoutId
                /\ call'[d].retryCount = call[d].retryCount
                /\ Len(call'[d].libraryIds) <= 1
                /\ \A i \in 1..Len(call'[d].libraryIds) :
                     \E e \in exercises :
                        /\ e.id = call'[d].libraryIds[i]
                        /\ e.name = CurrentWorkout(d).exercises[i].exerciseName
           /\ (call[d].pc = "tx" /\ call[d].retryCount = MAX_RETRIES
                 /\ call'[d].pc # "tx" /\ workouts' = workouts) =>
                /\ call'[d].pc = "failing"
                /\ call'[d].error # ""
           /\ (call[d].pc = "failing" /\ call'[d].pc = "idle"
                 /\ ev'.op = "failed") =>
                client'[d].response.error = call[d].error]_vars

\* C29 witness: the third attempt to create a workout failed with a
\* foreign-key error, which is on its way to the caller
RetriesUsedUp ==
    \E d \in Devices :
       /\ call[d].pc = "failing" /\ call[d].failedAt = "tx"
       /\ call[d].error = "foreign key"
       /\ call[d].retryCount = MAX_RETRIES
       /\ ev.op = "abort"

\* a row of exercise instance x holds the incoming set
SetPersisted(x, sd) ==
    \E r \in sets :
       r.workoutExerciseId = x.id /\ r.clientId = sd.clientId /\ HoldsSet(r, sd)

\* C30: in a workout merge the sets of a matched exercise are reconciled
\* also when the exercise lost its comparison: for an exercise whose client
\* timestamp is not newer than the stored one, an incoming set that is new
\* is inserted and an incoming set whose client timestamp is strictly newer
\* than its stored counterpart is persisted.
LosingExerciseStillReconcilesSets ==
    ev.op = "merge" =>
      \A i \in 1..Len(ev.wd.exercises) :
        LET ed == ev.wd.exercises[i]
        IN  \A x \in ExercisesOf(ev.pre, ev.workoutId, ed.clientId) :
              ~(ed.updatedAt > x.updatedAt) =>
                \A k \in 1..Len(ed.sets) :
                  LET sd == ed.sets[k]
                      stored == SetsOf(ev.pre, x.id, sd.clientId)
                  IN  (\A s \in stored : sd.updatedAt > s.updatedAt) =>
                        SetPersisted(x, sd)

\* C31: a created workout's exercise instances carry the position indices
\* 0..n-1, the instance at position i being the (i+1)-th element of the
\* incoming exercise array, and the sets of each instance carry the set
\* numbers 1..m, the set numbered j being the j-th element of the incoming
\* set array; no position or number is missing or repeated.
CreatedPositionsFollowArrays ==
    ev.op = "create" =>
      LET created == {x \in workoutExercises : x.workoutId = ev.workoutId}
          n == Len(ev.wd.exercises)
      IN  /\ Cardinality(created) = n
          /\ {x.orderIndex : x \in created} = 0..(n - 1)
          /\ \A x \in created :
                LET ed == ev.wd.exercises[x.orderIndex + 1]
                    rows == AllSetsOf(Stored, x.id)
                    m == Len(ed.sets)
                IN  /\ HoldsExercise(x, ed) /\ x.clientId = ed.clientId
                    /\ Cardinality(rows) = m
                    /\ {r.setNumber : r \in rows} = 1..m
                    /\ \A r \in rows :
                         /\ r.clientId = ed.sets[r.setNumber].clientId
                         /\ HoldsSet(r, ed.sets[r.setNumber])

\* C31 witness: a workout was created whose payload carries an exercise
\* with two sets
WorkoutWithTwoSetsCreated ==
    /\ ev.op = "create"
    /\ \E i \in 1..Len(ev.wd.exercises) : Len(ev.wd.exercises[i].sets) = 2
    /\ \E r \in sets : r.setNumber = 2

\* the indices of the joined rows, and those of one workout, of one exercise
\* instance, and those that carry a set of one exercise instance
JoinedOf(workoutId) ==
    {i \in 1..Len(joined.rows) : joined.rows[i].workouts.id = workoutId}

JoinedOfExercise(exerciseId) ==
    {i \in 1..Len(joined.rows) :
       joined.rows[i].workout_exercises.id = exerciseId}

JoinedSetsOf(exerciseId) ==
    {i \in JoinedOfExercise(exerciseId) : joined.rows[i].sets # NoRow}

Least(S) == CHOOSE i \in S : \A j \in S : i <= j

\* the place of a group of rows among groups, by first row
PlaceAmong(group, groups) ==
    Cardinality({g \in groups : Least(g) <= Least(group)})

\* the i-th element of a set of row indices, in ascending order
NthOf(S, i) == CHOOSE k \in S : Cardinality({j \in S : j <= k}) = i

\* C32: folding the joined rows of a change feed yields exactly one entry
\* per distinct workout id, inside it exactly one entry per distinct exercise
\* instance id of that workout, and under each exercise instance every joined
\* set row exactly once, however many rows the join produced
FoldKeepsOneEntryPerId ==
    joined.stage = "folded" =>
      LET rows == joined.rows
          result == joined.result
          workoutIds == {rows[i].workouts.id : i \in 1..Len(rows)}
          workoutGroups == {JoinedOf(w) : w \in workoutIds}
      IN  /\ Len(result) = Cardinality(workoutIds)
          /\ \A w \in workoutIds :
               LET first == rows[Least(JoinedOf(w))].workouts
                   entry == result[PlaceAmong(JoinedOf(w), workoutGroups)]
                   exerciseIds == {rows[i].workout_exercises.id :
                                     i \in JoinedOf(w)} \ {NoRow.id}
                   exerciseGroups == {JoinedOfExercise(e) : e \in exerciseIds}
               IN  /\ entry.clientId = ClientIdOr(first.clientId, w)
                   /\ entry.date = first.date
                   /\ Len(entry.exercises) = Cardinality(exerciseIds)
                   /\ \A e \in exerciseIds :
                        LET row == rows[Least(JoinedOfExercise(e))].workout_exercises
                            ex == entry.exercises[
                                    PlaceAmong(JoinedOfExercise(e), exerciseGroups)]
                            withSet == JoinedSetsOf(e)
                        IN  /\ ex.clientId = ClientIdOr(row.clientId, e)
                            /\ Len(ex.sets) = Cardinality(withSet)
                            /\ Cardinality({rows[i].sets.id : i \in withSet})
                                 = Cardinality(withSet)
                            /\ \A k \in 1..Len(ex.sets) :
                                 LET r == rows[NthOf(withSet, k)].sets
                                 IN  /\ ex.sets[k].clientId
                                          = ClientIdOr(r.clientId, r.id)
                                     /\ ex.sets[k].reps = r.reps

\* C32 witness: four joined rows of two workouts were folded, two of them
\* carrying the two sets of one exercise instance and not next to each other
InterleavedRowsFolded ==
    /\ joined.stage = "folded"
    /\ Len(joined.rows) = 4
    /\ Len(joined.result) = 2
    /\ \E i, j \in 1..4 :
         /\ j > i + 1
         /\ joined.rows[i].sets # NoRow
         /\ joined.rows[j].sets # NoRow
         /\ joined.rows[i].workout_exercises = joined.rows[j].workout_exercises


\* C33: the list of violations validateSyncPayload returns for a rejected
\* payload holds at most the fixed cap of 20 items and the stop marker,
\* however many exercises or sets of the payload violate a limit
ReportedViolationsCapped ==
    validation.stage = "validated" =>
      Len(validation.result.errors) <= TOO_MANY_ERRORS + 1


\* C34: after any calls of advanceDay, resetProgress and updateProgram the
\* current day index of every program lies in 0..daysPerWeek-1
DayIndexWithinWeek ==
    \A p \in workoutPrograms :
       /\ 0 <= p.currentDayIndex
       /\ p.currentDayIndex < p.daysPerWeek


\* C35: when two devices of a user sync the same stored workout concurrently,
\* each with a client timestamp newer than the stored timestamp it fetched,
\* the later commit never replaces a write that was committed after its
\* fetch and carries a newer client timestamp, so that the stored fields end
\* as those of the payload with the newer client timestamp
StaleSyncKeepsNewerWrite ==
    ev.op = "merge" =>
      LET before == RowById(ev.pre.workouts, ev.workoutId)
      IN  before.updatedAt # ev.serverTimestamp =>
            before.clientUpdatedAt <= ev.wd.updatedAt


\* the sync calls of a user that have ended
EndedCalls(userId) ==
    budget.calls - Cardinality({d \in DevicesOf(userId) : call[d].pc # "idle"})

\* C36: in every state, also after overlapping calls, the sync metadata of a
\* user has totalSyncs = successfulSyncs + failedSyncs, and totalSyncs is the
\* number of the user's sync calls that have ended
CountersMatchEndedCalls ==
    /\ \A r \in MatchingMetadata(syncMetadata, "u1") :
         /\ r.totalSyncs = r.successfulSyncs + r.failedSyncs
         /\ r.totalSyncs = EndedCalls("u1")
    /\ MatchingMetadata(syncMetadata, "u1") = {} => EndedCalls("u1") = 0


Users == {UserOf(d) : d \in Devices}

\* the workouts of a user and the exercise instances and sets under them
WorkoutIdsOf(userId) == {w.id : w \in {w \in workouts : w.userId = userId}}

OwnedBy(userId) ==
    LET wex == {x \in workoutExercises : x.workoutId \in WorkoutIdsOf(userId)}
    IN  [workouts |-> {w \in workouts : w.userId = userId},
         wex |-> wex,
         sets |-> {r \in sets : r.workoutExerciseId \in {x.id : x \in wex}}]

\* what a call has read and what it returns is its user's
CallSeesOwnWorkoutsOnly ==
    \A d \in Devices :
       /\ \A c \in DOMAIN call[d].existing :
            /\ call[d].existing[c].userId = UserOf(d)
            /\ call[d].existing[c].id \in WorkoutIdsOf(UserOf(d))
       /\ call[d].serverWorkouts \subseteq WorkoutIdsOf(UserOf(d))
       /\ client[d].response.serverData.workouts \subseteq WorkoutIdsOf(UserOf(d))
       /\ \A i \in 1..Len(call[d].conflicts) :
            call[d].conflicts[i].entityId \in WorkoutIdsOf(UserOf(d))
       /\ \A i \in 1..Len(client[d].response.conflicts) :
            client[d].response.conflicts[i].entityId \in WorkoutIdsOf(UserOf(d))

StatsMatchResponse ==
    \A d \in Devices :
       client[d].response.success =>
         LET response == client[d].response
         IN  /\ response.stats.uploaded + response.stats.conflicts
                  = Len(client[d].payload)
             /\ response.stats.conflicts = Len(response.conflicts)
             /\ response.stats.downloaded
                  = Cardinality(response.serverData.workouts)

\* C38 witness: a successful response that counts an uploaded workout, a
\* conflict and a downloaded workout
ResponseCountsEachKind ==
    \E d \in Devices :
       /\ client[d].response.success
       /\ client[d].response.stats.uploaded >= 1
       /\ client[d].response.stats.conflicts >= 1
       /\ client[d].response.stats.downloaded >= 1


\* C39: in every committed state every set row belongs to a stored exercise
\* instance, and every exercise instance belongs to a stored workout and
\* references a stored catalog row, however the merges of a workout by
\* overlapping calls interleave
NoOrphanRows ==
    /\ \A r \in sets : \E x \in workoutExercises : x.id = r.workoutExerciseId
    /\ \A x \in workoutExercises :
         /\ \E w \in workouts : w.id = x.workoutId
         /\ \E e \in exercises : e.id = x.exerciseId

\* C39 witness: while the user's other device is in a call, a merge has
\* deleted an exercise instance that had a set
ExerciseWithSetDeletedDuringOtherCall ==
    /\ ev.op = "merge"
    /\ \E d \in DevicesOf(UserOf(ev.d)) \ {ev.d} : call[d].pc # "idle"
    /\ \E x \in ev.pre.wex :
         /\ x.workoutId = ev.workoutId
         /\ \A y \in workoutExercises : y.id # x.id
         /\ \E r \in ev.pre.sets : r.workoutExerciseId = x.id

====
